---- MODULE Spec2Model ----
(***************************************************************************)
(* Flora2 plant-care controller: the alert filter of alert.py, the         *)
(* irrigation scheduler of irrigation.py and the state persistence of      *)
(* main.py (save_state / load_state around deep sleep), as they are driven *)
(* by the evaluation loop of main.py.                                      *)
(*                                                                         *)
(* One evaluation cycle of main() calls check() on every Alert of the list *)
(* `alerts`, in list order.  check() reads the monitored flags, the clock  *)
(* time() and the class attribute Alert.alert_tstamp, which all Alert      *)
(* instances share.  The cycle then runs auto_irrigation() if it is        *)
(* enabled and ends in the standby loop or, with settings.deep_sleep, in   *)
(* save_state() and machine.deepsleep(); the wake-up is a reset that runs  *)
(* main() again and calls load_state().                                    *)
(*                                                                         *)
(* Four specifications share the variables: Spec follows the alert        *)
(* filter (automatic irrigation and deep sleep switched off), SpecIrr the  *)
(* irrigation scheduler, SpecSleep the cycle with deep sleep, and          *)
(* SpecStore applies save_state / load_state to arbitrary states.          *)
(***************************************************************************)
EXTENDS Integers, Sequences, FiniteSets, TLC

(***************************************************************************)
(* Bounds of the model.                                                    *)
(***************************************************************************)
\* number of entries of the dictionary s.sensors (one bit each in val_ul/val_oh)
NumSensors == 2
\* largest value of settings.alerts_defer_time / settings.alerts_repeat_time
MaxDur == 1
\* largest number of clock seconds between two evaluation cycles
MaxStep == 2
\* number of clock seconds the model follows after the first cycle
Horizon == 3

\* number of clock ticks of one day (time of day = clock modulo DayLen)
DayLen == 2
\* largest value of settings.irr_rest
MaxRest == 2
\* Sensor._tout (settings.mqtt_msg_timeout)
SensorTout == 2
\* number of clock ticks SpecIrr follows after its first cycle
IrrHorizon == 3
\* number of clock ticks SpecSleep and SpecStore follow after the first cycle
SleepHorizon == 1

\* time() is wall-clock time set from NTP before the main loop starts: the
\* first cycle runs at a time later than any configured duration
Epoch == MaxDur + 1
MaxTime == Epoch + Horizon

\* SpecIrr starts at a time later than any rest time
IrrEpoch == DayLen + MaxRest
IrrMaxTime == IrrEpoch + IrrHorizon

\* number of clock ticks SpecRest follows after its first cycle
RestHorizon == 3
RestMaxTime == IrrEpoch + RestHorizon

\* SpecSleep and SpecStore follow the clock up to this time
SleepMaxTime == Epoch + SleepHorizon

Sensors == 1..NumSensors
Modes == 0..4

\* indices of the list m_pump.pumps: range(2)
Pumps == 0..1
\* values of Pump.busy
PUMP_BUSY_MAN == 1
PUMP_BUSY_AUTO == 2

(***************************************************************************)
(* The list `alerts` built by main(): a 'sensors' Alert with two           *)
(* attributes followed by a 'system' Alert on a flag of the tank.          *)
(***************************************************************************)
AlertList ==
    << [check_type |-> "sensors", attr2 |-> TRUE],
       [check_type |-> "system",  attr2 |-> FALSE] >>

AlertIds == 1..Len(AlertList)

(***************************************************************************)
(* Positions of main(): PcOff, the controller is in deep sleep or switched *)
(* off; PcBoot, the objects are constructed and the main loop has not      *)
(* started; an element of AlertIds, the loop `for a in alerts`; PcIrr, the *)
(* irrigation; PcEnd, the end of the cycle; PcSleep, between save_state()  *)
(* and machine.deepsleep().                                                *)
(***************************************************************************)
PcOff == 0 - 1
PcBoot == 0
PcIrr == Len(AlertList) + 1
PcEnd == Len(AlertList) + 2
PcSleep == Len(AlertList) + 3
\* PcMan, the call of man_irrigation(); PcWait, the standby loop
PcMan == Len(AlertList) + 4
PcWait == Len(AlertList) + 5

VARIABLES
    now,            \* value returned by time()
    defer_time,     \* Alert.defer_time  (settings.alerts_defer_time)
    repeat_time,    \* Alert.repeat_time (settings.alerts_repeat_time)
    mode,           \* Alert.mode, per Alert
    alert_tstamp,   \* Alert.alert_tstamp (class attribute)
    tstamp,         \* Alert.tstamp, per Alert
    flag,           \* Alert.flag, per Alert
    val_ul,         \* Alert.val_ul, per Alert
    val_oh,         \* Alert.val_oh, per Alert
    status,         \* Alert.status, per Alert
    pc,             \* index of the next Alert of the loop `for a in alerts`
    halted,         \* an exception left main()
    fired,          \* history: the Alert returned True since its latest rising edge
    ever,           \* history: the Alert has returned True at least once
    last,           \* history: observation of the most recent check() call
    night_begin,    \* settings.night_begin_hr/min as a time of day
    night_end,      \* settings.night_end_hr/min as a time of day
    irr_rest,       \* settings.irr_rest
    sensor_pump,    \* Sensor.pump, per sensor
    sensor_tstamp,  \* Sensor.tstamp, per sensor
    pumps,          \* m_pump.pumps: busy, timestamp, status per pump
    irr_scheduled,  \* settings.irr_scheduled
    ilast,          \* history: observation of the most recent auto_irrigation()
    settings,       \* settings.auto_irrigation, auto_report, irr_duration_man,
                    \* deep_sleep
    inifile,        \* the values config.ini gives to these four settings
    rtc,            \* machine.RTC().memory()
    boot,           \* history: the latest reset and what has run since
    micropython,    \* sys.implementation.name == "micropython"
    sensor_interface, \* settings.sensor_interface
    alerts,         \* the list `alerts` of main(), as far as it has been built
    inbox,          \* 'man_irr_cmd' messages received and not yet dispatched
    net,            \* the network thread of the paho client (loop_start)
    step,           \* the loop variable of the standby loop
    hlast           \* history: the callbacks and the waits of the main loop

irr_config == << night_begin, night_end, irr_rest, sensor_pump >>

irr_vars == << irr_config, sensor_tstamp, pumps, irr_scheduled, ilast >>

store_vars == << settings, inifile, rtc, boot >>

host_vars == << micropython, sensor_interface, alerts, inbox, net, step, hlast >>

vars == << now, defer_time, repeat_time, mode, alert_tstamp, tstamp, flag,
           val_ul, val_oh, status, pc, halted, fired, ever, last,
           irr_vars, store_vars, host_vars >>

config == << defer_time, repeat_time, mode >>

\* the state of the Alert objects and its history
alert_vars == << alert_tstamp, tstamp, flag, val_ul, val_oh, status,
                 fired, ever, last >>

(***************************************************************************)
(* Bit-vector helpers: Python's  |= (1 << i)  and  x & ~y  on the state    *)
(* vectors.                                                                *)
(***************************************************************************)
RECURSIVE Pow2(_)
Pow2(n) == IF n = 0 THEN 1 ELSE 2 * Pow2(n - 1)

Bit(x, i) == (x \div Pow2(i)) % 2

\* the state vector built by the loop  for i, s in enumerate(sensors)
RECURSIVE StateVector(_, _)
StateVector(f, n) ==
    IF n = 0 THEN 0
    ELSE StateVector(f, n - 1) + (IF f[n] THEN Pow2(n - 1) ELSE 0)

\* x & ~y
RECURSIVE AndNot(_, _, _)
AndNot(x, y, n) ==
    IF n = 0 THEN 0
    ELSE AndNot(x, y, n - 1)
         + (IF Bit(x, n - 1) = 1 /\ Bit(y, n - 1) = 0 THEN Pow2(n - 1) ELSE 0)

(***************************************************************************)
(* Alert.repeat_expired / Alert.defer_expired                              *)
(***************************************************************************)
\* fault: the repeat interval compared with >= instead of >
repeat_expired_Geq(ts) == (now - ts) >= repeat_time

\* ts: the value of self.tstamp when the method is called
repeat_expired(ts) == (now - ts) > repeat_time

\* fault: the defer window compared with >= instead of >
defer_expired_Geq == (now - alert_tstamp) >= defer_time

\* fault: the defer comparison reversed
defer_expired_Less == (now - alert_tstamp) < defer_time

defer_expired == (now - alert_tstamp) > defer_time


\* fault: modes 3 and 4 alert at the edge without asking defer_expired()
ChangeBranch_NoDefer(m, ts, fl, change) ==
    IF change
    THEN [tstamp |-> now,
          flag   |-> TRUE,
          alert  |-> (m = 1 \/ m = 2) \/ (m = 3 \/ m = 4)]
    ELSE [tstamp |-> ts, flag |-> fl, alert |-> FALSE]

(***************************************************************************)
(* Alert.check_sensors, the part  if (change): ...                         *)
(* m: mode, ts: tstamp, fl: flag on entry.                                 *)
(***************************************************************************)
ChangeBranch(m, ts, fl, change) ==
    IF change
    THEN [tstamp |-> now,
          flag   |-> TRUE,
          alert  |-> (m = 1 \/ m = 2) \/ ((m = 3 \/ m = 4) /\ defer_expired)]
    ELSE [tstamp |-> ts, flag |-> fl, alert |-> FALSE]

\* fault: the repeat timer also runs in mode 1
ActiveBranch_RepeatMode1(m, r, active) ==
    IF active
    THEN LET rep == (m = 1 \/ m = 2) /\ r.tstamp # 0 /\ repeat_expired(r.tstamp)
             def == (m = 3 \/ m = 4) /\ r.flag /\ defer_expired
         IN  [tstamp |-> IF rep \/ def THEN now ELSE r.tstamp,
              flag   |-> IF def /\ m = 3 THEN FALSE ELSE r.flag,
              alert  |-> r.alert \/ rep \/ def]
    ELSE [tstamp |-> 0, flag |-> FALSE, alert |-> r.alert]

\* fault: mode 3 does not clear flag after its alert
ActiveBranch_KeepFlag(m, r, active) ==
    IF active
    THEN LET rep == (m = 2) /\ r.tstamp # 0 /\ repeat_expired(r.tstamp)
             def == (m = 3 \/ m = 4) /\ r.flag /\ defer_expired
         IN  [tstamp |-> IF rep \/ def THEN now ELSE r.tstamp,
              flag   |-> r.flag,
              alert  |-> r.alert \/ rep \/ def]
    ELSE [tstamp |-> 0, flag |-> FALSE, alert |-> r.alert]

\* fault: the deferred alert of modes 3 and 4 does not ask for flag
ActiveBranch_NoFlagTest(m, r, active) ==
    IF active
    THEN LET rep == (m = 2) /\ r.tstamp # 0 /\ repeat_expired(r.tstamp)
             def == (m = 3 \/ m = 4) /\ defer_expired
         IN  [tstamp |-> IF rep \/ def THEN now ELSE r.tstamp,
              flag   |-> IF def /\ m = 3 THEN FALSE ELSE r.flag,
              alert  |-> r.alert \/ rep \/ def]
    ELSE [tstamp |-> 0, flag |-> FALSE, alert |-> r.alert]

\* fault: modes 3 and 4 alert at the edge only, a suppressed edge is dropped
ActiveBranch_NoDeferred(m, r, active) ==
    IF active
    THEN LET rep == (m = 2) /\ r.tstamp # 0 /\ repeat_expired(r.tstamp)
         IN  [tstamp |-> IF rep THEN now ELSE r.tstamp,
              flag   |-> r.flag,
              alert  |-> r.alert \/ rep]
    ELSE [tstamp |-> 0, flag |-> FALSE, alert |-> r.alert]

\* fault: a cleared condition resets tstamp but leaves flag set
ActiveBranch_FlagSurvives(m, r, active) ==
    IF active
    THEN LET rep == (m = 2) /\ r.tstamp # 0 /\ repeat_expired(r.tstamp)
             def == (m = 3 \/ m = 4) /\ r.flag /\ defer_expired
         IN  [tstamp |-> IF rep \/ def THEN now ELSE r.tstamp,
              flag   |-> IF def /\ m = 3 THEN FALSE ELSE r.flag,
              alert  |-> r.alert \/ rep \/ def]
    ELSE [tstamp |-> 0, flag |-> r.flag, alert |-> r.alert]

(***************************************************************************)
(* Alert.check_sensors, the part  if (active): ... else: ...               *)
(* r: tstamp, flag and alert as the change part left them.                 *)
(***************************************************************************)
ActiveBranch(m, r, active) ==
    IF active
    THEN LET rep == (m = 2) /\ r.tstamp # 0 /\ repeat_expired(r.tstamp)
             def == (m = 3 \/ m = 4) /\ r.flag /\ defer_expired
         IN  [tstamp |-> IF rep \/ def THEN now ELSE r.tstamp,
              flag   |-> IF def /\ m = 3 THEN FALSE ELSE r.flag,
              alert  |-> r.alert \/ rep \/ def]
    ELSE [tstamp |-> 0, flag |-> FALSE, alert |-> r.alert]

\* fault: the immediate alert is not restricted to modes 1 and 2
SysChangeBranch_AnyMode(m, ts, fl, change) ==
    IF change
    THEN [tstamp |-> now,
          flag   |-> TRUE,
          alert  |-> ~(m = 3 \/ m = 4) \/ defer_expired]
    ELSE [tstamp |-> ts, flag |-> fl, alert |-> FALSE]

(***************************************************************************)
(* Alert.check_system, the part  if (change): ...                          *)
(***************************************************************************)
SysChangeBranch(m, ts, fl, change) ==
    IF change
    THEN [tstamp |-> now,
          flag   |-> TRUE,
          alert  |-> (m = 1 \/ m = 2) \/ ((m = 3 \/ m = 4) /\ defer_expired)]
    ELSE [tstamp |-> ts, flag |-> fl, alert |-> FALSE]

\* fault: a cleared condition stops the timer but leaves flag set
SysActiveBranch_NoClear(m, r, active) ==
    IF active
    THEN LET rep == (m = 2) /\ r.tstamp # 0 /\ repeat_expired(r.tstamp)
             def == (m = 3 \/ m = 4) /\ r.flag /\ defer_expired
         IN  IF rep
             THEN [tstamp |-> r.tstamp, flag |-> r.flag, alert |-> r.alert,
                   raised |-> TRUE]
             ELSE [tstamp |-> IF def THEN now ELSE r.tstamp,
                   flag   |-> IF def /\ m = 3 THEN FALSE ELSE r.flag,
                   alert  |-> r.alert \/ def,
                   raised |-> FALSE]
    ELSE [tstamp |-> 0, flag |-> r.flag, alert |-> r.alert, raised |-> FALSE]

(***************************************************************************)
(* Alert.check_system, the part  if (active): ... else: ...                *)
(* The repeat path of mode 2 evaluates the undefined name `true`: the      *)
(* NameError leaves check_system before tstamp is restarted, `raised`.     *)
(***************************************************************************)
SysActiveBranch(m, r, active) ==
    IF active
    THEN LET rep == (m = 2) /\ r.tstamp # 0 /\ repeat_expired(r.tstamp)
             def == (m = 3 \/ m = 4) /\ r.flag /\ defer_expired
         IN  IF rep
             THEN [tstamp |-> r.tstamp, flag |-> r.flag, alert |-> r.alert,
                   raised |-> TRUE]
             ELSE [tstamp |-> IF def THEN now ELSE r.tstamp,
                   flag   |-> IF def /\ m = 3 THEN FALSE ELSE r.flag,
                   alert  |-> r.alert \/ def,
                   raised |-> FALSE]
    ELSE [tstamp |-> 0, flag |-> FALSE, alert |-> r.alert, raised |-> FALSE]

\* fault: Alert.alert_tstamp restarted by every check()
AlertTstampNext_Always(alert) == now

(***************************************************************************)
(* Alert.check_sensors / Alert.check_system, the end:                      *)
(*   if (alert): Alert.alert_tstamp = time()                               *)
(***************************************************************************)
AlertTstampNext(alert) == IF alert THEN now ELSE alert_tstamp

(***************************************************************************)
(* History of the run: the cause of the latest reset, whether load_state   *)
(* has run since, and the steps of the current cycle of the main loop in   *)
(* the order in which they ran.                                            *)
(***************************************************************************)
Logged(entry) == [boot EXCEPT !.log = Append(@, entry)]

(***************************************************************************)
(* History of a check() call.                                              *)
(***************************************************************************)
Ret(alert) == IF alert THEN "True" ELSE "False"

\* the condition of Alert a was active at its previous check()
WasActive(a) == val_ul[a] # 0 \/ val_oh[a] # 0 \/ status[a]

\* what a check() call leaves behind: r, the values of tstamp, flag and alert
\* at its return statement
Result(r) ==
    [tstamp |-> r.tstamp, flag |-> r.flag,
     alert_tstamp |-> AlertTstampNext(r.alert), ret |-> Ret(r.alert)]

NoResult == [tstamp |-> 0, flag |-> FALSE, alert_tstamp |-> 0, ret |-> "False"]

\* edges: the number of items whose bit rose in this call; twin: the Result
\* of the call it is compared with (see check_sensors, check_system)
Observe(a, change, active, ret) ==
    [a |-> a, t |-> now, change |-> change, active |-> active, ret |-> ret,
     tstamp0 |-> tstamp[a], flag0 |-> flag[a], alert_tstamp0 |-> alert_tstamp,
     active0 |-> WasActive(a), fired0 |-> fired[a], ever0 |-> ever[a],
     edges |-> 0, twin |-> NoResult]

NoCheck ==
    [a |-> 0, t |-> 0, change |-> FALSE, active |-> FALSE, ret |-> "False",
     tstamp0 |-> 0, flag0 |-> FALSE, alert_tstamp0 |-> 0,
     active0 |-> FALSE, fired0 |-> FALSE, ever0 |-> FALSE,
     edges |-> 0, twin |-> NoResult]

FiredNext(a, change, active, alert) ==
    IF ~active THEN FALSE
    ELSE IF alert THEN TRUE
    ELSE IF change THEN FALSE
    ELSE fired[a]

\* fault: the edge taken on the aggregate, a change only if no bit was set
\* at the previous call
Change_Aggregate(ul, ul_d, oh, oh_d) ==
    (ul # 0 \/ oh # 0) /\ ul_d = 0 /\ oh_d = 0

\* fault: a change only if exactly one of the two vectors has a rising bit
Change_Xor(ul, ul_d, oh, oh_d) ==
    (AndNot(ul, ul_d, NumSensors) # 0) # (AndNot(oh, oh_d, NumSensors) # 0)

(***************************************************************************)
(* Alert.check_sensors:                                                    *)
(*   change = (self.val_ul & ~val_ul_d) or (self.val_oh & ~val_oh_d)       *)
(* ul_d, oh_d: the vectors of the previous call.                           *)
(***************************************************************************)
Change(ul, ul_d, oh, oh_d) ==
    AndNot(ul, ul_d, NumSensors) # 0 \/ AndNot(oh, oh_d, NumSensors) # 0

\* the items (bit positions) of which a bit rose in one of the two vectors
Rising(ul, ul_d, oh, oh_d) ==
    { i \in 0..(NumSensors - 1) :
        \/ Bit(AndNot(ul, ul_d, NumSensors), i) = 1
        \/ Bit(AndNot(oh, oh_d, NumSensors), i) = 1 }

\* vector x with the bits of the items in `drop` as they were in x_d
RECURSIVE KeepOld(_, _, _, _)
KeepOld(x, x_d, drop, n) ==
    IF n = 0 THEN 0
    ELSE KeepOld(x, x_d, drop, n - 1)
         + Pow2(n - 1) * (IF (n - 1) \in drop THEN Bit(x_d, n - 1) ELSE Bit(x, n - 1))

(***************************************************************************)
(* check_sensors from the same state of the Alert on the vectors ul, oh.   *)
(***************************************************************************)
SensorsResult(a, ul, ul_d, oh, oh_d) ==
    Result(ActiveBranch(mode[a],
                        ChangeBranch(mode[a], tstamp[a], flag[a],
                                     Change(ul, ul_d, oh, oh_d)),
                        ul # 0 \/ oh # 0))

(***************************************************************************)
(* The same check_sensors call with a rising edge of one item only: the    *)
(* other items with a rising edge kept as they were at the previous call.  *)
(***************************************************************************)
OneEdge(a, ul, oh) ==
    LET rising == Rising(ul, val_ul[a], oh, val_oh[a])
        drop == rising \ {CHOOSE i \in rising : \A j \in rising : i <= j}
    IN  IF rising = {} THEN SensorsResult(a, ul, val_ul[a], oh, val_oh[a])
        ELSE SensorsResult(a, KeepOld(ul, val_ul[a], drop, NumSensors), val_ul[a],
                              KeepOld(oh, val_oh[a], drop, NumSensors), val_oh[a])

\* True as the integer of a one-item state vector
AsBit(b) == IF b THEN 1 ELSE 0

(***************************************************************************)
(* check_sensors on the single item of a 'system' Alert, no second         *)
(* attribute: v, the value of the flag; status[a], its previous value.     *)
(***************************************************************************)
SingleItem(a, v) == SensorsResult(a, AsBit(v), AsBit(status[a]), 0, 0)

(***************************************************************************)
(* Alert.check() of a 'sensors' Alert: check_sensors(sensors, attr1,       *)
(* attr2).  f1[s], f2[s]: the values getattr(sensors[s], attr1/attr2).     *)
(* ul, oh: the new state vectors; r1, r2: tstamp, flag and alert after the *)
(* change part and after the active part.                                  *)
(***************************************************************************)
check_sensors(a, f1, f2) ==
    \E ul \in {StateVector(f1, NumSensors)},
       oh \in {IF AlertList[a].attr2 THEN StateVector(f2, NumSensors) ELSE 0} :
    \E change \in {Change(ul, val_ul[a], oh, val_oh[a])},
       active \in {ul # 0 \/ oh # 0} :
    \E r1 \in {ChangeBranch(mode[a], tstamp[a], flag[a], change)} :
    \E r2 \in {ActiveBranch(mode[a], r1, active)} :
        /\ val_ul' = [val_ul EXCEPT ![a] = ul]
        /\ val_oh' = [val_oh EXCEPT ![a] = oh]
        /\ tstamp' = [tstamp EXCEPT ![a] = r2.tstamp]
        /\ flag' = [flag EXCEPT ![a] = r2.flag]
        /\ alert_tstamp' = AlertTstampNext(r2.alert)
        /\ fired' = [fired EXCEPT ![a] = FiredNext(a, change, active, r2.alert)]
        /\ ever' = [ever EXCEPT ![a] = ever[a] \/ r2.alert]
        /\ last' = [Observe(a, change, active, Ret(r2.alert)) EXCEPT
                        !.edges = Cardinality(Rising(ul, val_ul[a], oh, val_oh[a])),
                        !.twin = OneEdge(a, ul, oh)]
        /\ pc' = pc + 1
        /\ boot' = Logged("check")
        /\ UNCHANGED << now, config, status, halted, irr_vars, settings, inifile, rtc >>

(***************************************************************************)
(* Alert.check() of a 'system' Alert: check_system(obj, attr).             *)
(* v: the value getattr(obj, attr), a bool (Tank.low, Tank.empty).         *)
(***************************************************************************)
check_system(a, v) ==
    \E change \in {v /\ ~status[a]}, active \in {v} :
    \E r1 \in {SysChangeBranch(mode[a], tstamp[a], flag[a], change)} :
    \E r2 \in {SysActiveBranch(mode[a], r1, active)} :
        /\ status' = [status EXCEPT ![a] = v]
        /\ tstamp' = [tstamp EXCEPT ![a] = r2.tstamp]
        /\ flag' = [flag EXCEPT ![a] = r2.flag]
        /\ IF r2.raised
           THEN /\ halted' = TRUE
                /\ last' = [Observe(a, change, active, "NameError") EXCEPT
                                !.twin = SingleItem(a, v)]
                /\ UNCHANGED << alert_tstamp, fired, ever, pc >>
           ELSE /\ alert_tstamp' = AlertTstampNext(r2.alert)
                /\ fired' = [fired EXCEPT ![a] = FiredNext(a, change, active, r2.alert)]
                /\ ever' = [ever EXCEPT ![a] = ever[a] \/ r2.alert]
                /\ last' = [Observe(a, change, active, Ret(r2.alert)) EXCEPT
                                !.twin = SingleItem(a, v)]
                /\ pc' = pc + 1
                /\ UNCHANGED halted
        /\ boot' = Logged("check")
        /\ UNCHANGED << now, config, val_ul, val_oh, irr_vars, settings, inifile, rtc >>

(***************************************************************************)
(* Alert.check(): delegate on _check_type, for the Alert the loop          *)
(*   for a in alerts: alert |= a.check()                                   *)
(* of main() has reached.                                                  *)
(***************************************************************************)
CheckSensors ==
    /\ ~halted
    /\ pc \in AlertIds
    /\ AlertList[pc].check_type = "sensors"
    /\ \E f1 \in [Sensors -> BOOLEAN], f2 \in [Sensors -> BOOLEAN] :
          check_sensors(pc, f1, f2)
    /\ UNCHANGED host_vars

CheckSystem ==
    /\ ~halted
    /\ pc \in AlertIds
    /\ AlertList[pc].check_type # "sensors"
    /\ \E v \in BOOLEAN : check_system(pc, v)
    /\ UNCHANGED host_vars

(***************************************************************************)
(* The rest of a cycle of the main loop and the wait for the next one      *)
(* (standby loop or deep sleep of processing_period seconds): the clock    *)
(* advances and the alert loop starts again.                               *)
(***************************************************************************)
NextCycle ==
    /\ ~halted
    /\ pc = PcIrr
    /\ ~settings.auto_irrigation
    /\ ~settings.deep_sleep
    /\ \E d \in 1..MaxStep :
          /\ now + d <= MaxTime
          /\ now' = now + d
    /\ pc' = 1
    /\ boot' = [boot EXCEPT !.log = << >>]
    /\ UNCHANGED << config, alert_tstamp, tstamp, flag, val_ul, val_oh, status,
                    halted, fired, ever, last, irr_vars, settings, inifile, rtc >>
    /\ UNCHANGED host_vars

(***************************************************************************)
(* The clock of a loop that never ends.  The Alerts read a stored time ts  *)
(* only as `ts` (is it 0) and in now - ts > defer_time or repeat_time,     *)
(* durations of at most MaxDur: time() stays at LiveNow and, when d        *)
(* seconds pass, every stored time that is not 0 is moved back by d, down  *)
(* to LiveNow - LiveWindow at most, an age that exceeds every duration.    *)
(***************************************************************************)
LiveWindow == MaxDur + 1

LiveNow == Epoch + LiveWindow

Back(ts, d) ==
    IF ts = 0 THEN 0
    ELSE IF ts - d < LiveNow - LiveWindow THEN LiveNow - LiveWindow
    ELSE ts - d

\* Alert.check() of a 'sensors' Alert, as CheckSensors, with sensors that
\* never violate the limit of the second attribute
LiveCheckSensors ==
    /\ ~halted
    /\ pc \in AlertIds
    /\ AlertList[pc].check_type = "sensors"
    /\ \E f1 \in [Sensors -> BOOLEAN] :
          check_sensors(pc, f1, [s \in Sensors |-> FALSE])
    /\ UNCHANGED host_vars

(***************************************************************************)
(* The rest of a cycle of the main loop and the standby loop, as           *)
(* NextCycle, for any number of cycles: d seconds pass.  The history of    *)
(* the latest check() ends here.                                           *)
(***************************************************************************)
LiveCycle ==
    /\ ~halted
    /\ pc = PcIrr
    /\ ~settings.auto_irrigation
    /\ ~settings.deep_sleep
    /\ \E d \in 1..MaxStep :
          /\ alert_tstamp' = Back(alert_tstamp, d)
          /\ tstamp' = [a \in AlertIds |-> Back(tstamp[a], d)]
    /\ pc' = 1
    /\ last' = NoCheck
    /\ boot' = [boot EXCEPT !.log = << >>]
    /\ UNCHANGED << now, config, flag, val_ul, val_oh, status,
                    halted, fired, ever, irr_vars, settings, inifile, rtc >>
    /\ UNCHANGED host_vars

(***************************************************************************)
(* Irrigation.auto_irrigation (irrigation.py).                             *)
(*                                                                         *)
(* A reading is what update_sensor() left in the comparison flags of a     *)
(* Sensor: moist_ul (moist < moist_min), moist_oh (moist > moist_max) and  *)
(* light_il (light > light_irr).                                           *)
(***************************************************************************)
Readings ==
    { r \in [light_il : BOOLEAN, moist_oh : BOOLEAN, moist_ul : BOOLEAN] :
        ~(r.moist_oh /\ r.moist_ul) }

\* the flags after Sensor.__init__; the loop of auto_irrigation() leaves at
\* a sensor that is not valid before it reads its flags, which therefore
\* stand for any
NoReading == [light_il |-> FALSE, moist_oh |-> FALSE, moist_ul |-> FALSE]

\* Sensor.valid
valid(s) == sensor_tstamp[s] # 0 /\ (now - sensor_tstamp[s]) < SensorTout

\* fault: the two comparisons of the night test joined by `and`
InNightTest_And ==
    LET day == now \div DayLen
        nighttime_start == day * DayLen + night_begin
        nighttime_end == day * DayLen + night_end
    IN  (now >= nighttime_start) /\ (now < nighttime_end)

\* the test  (now >= nighttime_start) or (now < nighttime_end), with the
\* two limits placed by mktime() on the day of localtime()
InNightTest ==
    LET day == now \div DayLen
        nighttime_start == day * DayLen + night_begin
        nighttime_end == day * DayLen + night_end
    IN  (now >= nighttime_start) \/ (now < nighttime_end)

\* the loop  for sensor in m_sensor.sensors  for pump p, from the i-th
\* sensor on: its four `break`s end the loop with activate[p] as it is
RECURSIVE Activate(_, _, _)
Activate(p, i, sv) ==
    IF i > NumSensors THEN FALSE
    ELSE IF sensor_pump[i] # p + 1 THEN Activate(p, i + 1, sv)
    ELSE IF ~valid(i) THEN FALSE
    ELSE IF sv[i].light_il THEN FALSE
    ELSE IF sv[i].moist_oh THEN FALSE
    ELSE IF sv[i].moist_ul THEN TRUE
    ELSE Activate(p, i + 1, sv)

(***************************************************************************)
(* Pump.power_on(on_time) (pump.py).  A run is what the call reads, in the *)
(* order in which it reads it: tank.empty at the call (empty0), and then   *)
(* at every pass of the loop  for step in range(on_time)  the driver       *)
(* status and tank.empty: "drv", _drvstatus is not True (read on the       *)
(* platforms other than esp32); "empty", tank.empty is set; "ok", neither. *)
(* The loop ends at the first pass that reads "drv" or "empty", so the     *)
(* readings of a run end there.                                            *)
(***************************************************************************)
PassReadings == {"ok", "drv", "empty"}

\* the readings of the loop: `ok` at every pass but possibly the last one
LoopReadings(on_time) ==
    UNION {{o \in [1..n -> PassReadings] :
               /\ \A k \in 1..(n - 1) : o[k] = "ok"
               /\ n < on_time => (n >= 1 /\ o[n] # "ok")} : n \in 0..on_time}

Runs(on_time) ==
    {[empty0 |-> TRUE, obs |-> << >>]}
    \cup {[empty0 |-> FALSE, obs |-> o] : o \in LoopReadings(on_time)}

\* the placeholder for the readings of a call that is not made
NoRun == [empty0 |-> TRUE, obs |-> << >>]

RECURSIVE PowerLoop(_, _, _)

\* fault: the loop goes on after it has read tank.empty
PowerLoop_RunsDry(on_time, obs, k) ==
    IF k > on_time THEN [status |-> 0, slept |-> on_time]
    ELSE IF obs[k] = "drv" THEN [status |-> 2, slept |-> k - 1]
    ELSE IF obs[k] = "empty"
    THEN [status |-> 1, slept |-> on_time]
    ELSE PowerLoop(on_time, obs, k + 1)

\* the loop  for step in range(on_time)  from pass k on: the status it
\* leaves and the number of sleep(1) calls made
PowerLoop(on_time, obs, k) ==
    IF k > on_time THEN [status |-> 0, slept |-> on_time]
    ELSE IF obs[k] = "drv" THEN [status |-> 2, slept |-> k - 1]
    ELSE IF obs[k] = "empty" THEN [status |-> 1, slept |-> k - 1]
    ELSE PowerLoop(on_time, obs, k + 1)

\* fault: the call returns 0 when it finds the tank empty at its start
power_on_StatusLost(on_time, run) ==
    IF run.empty0
    THEN [status |-> 0, pin |-> << >>, slept |-> 0]
    ELSE LET r == PowerLoop(on_time, run.obs, 1)
         IN  [status |-> r.status, pin |-> << 1, 0 >>, slept |-> r.slept]

\* the call: status, the values written to the pump output pin_power in the
\* order of the writes (pin), and the seconds the call slept in its loop
\* (the clock is read in whole seconds: the half second after switching on
\* is not counted)
power_on(on_time, run) ==
    IF run.empty0
    THEN [status |-> 1, pin |-> << >>, slept |-> 0]
    ELSE LET r == PowerLoop(on_time, run.obs, 1)
         IN  [status |-> r.status, pin |-> << 1, 0 >>, slept |-> r.slept]

\* settings.irr_duration_auto1 / irr_duration_auto2, by pump index
irr_duration_auto1 == 1
irr_duration_auto2 == 2

irr_duration_auto(p) == IF p = 0 THEN irr_duration_auto1 ELSE irr_duration_auto2

\* the status of a pass that does not call power_on
NoCall == 0 - 1

\* a pass of the pump loop that does not call power_on
Skip(pu, sched, t) ==
    [pump |-> pu, schedule |-> sched, called |-> 0, at |-> t, slept |-> 0,
     status |-> NoCall, pin |-> << >>]

\* fault: the rest time is not observed
PumpStep_NoRest(p, pu, act, run, t) ==
    IF ~act THEN Skip(pu, FALSE, t)
    ELSE IF pu.busy = 0
    THEN LET r == power_on(irr_duration_auto(p), run)
         IN  [pump |-> [busy |-> 0, timestamp |-> t + r.slept,
                        status |-> r.status],
              schedule |-> FALSE, called |-> 1, at |-> t, slept |-> r.slept,
              status |-> r.status, pin |-> r.pin]
    ELSE Skip(pu, FALSE, t)

\* fault: a pump that is busy is run all the same
PumpStep_IgnoresBusy(p, pu, act, run, t) ==
    IF ~act THEN Skip(pu, FALSE, t)
    ELSE IF (t - pu.timestamp) < irr_rest THEN Skip(pu, TRUE, t)
    ELSE LET r == power_on(irr_duration_auto(p), run)
         IN  [pump |-> [busy |-> 0, timestamp |-> t + r.slept,
                        status |-> r.status],
              schedule |-> FALSE, called |-> 1, at |-> t, slept |-> r.slept,
              status |-> r.status, pin |-> r.pin]

\* fault: busy is not reset after the power_on call
PumpStep_BusyHeld(p, pu, act, run, t) ==
    IF ~act THEN Skip(pu, FALSE, t)
    ELSE IF (t - pu.timestamp) < irr_rest THEN Skip(pu, TRUE, t)
    ELSE IF pu.busy = 0
    THEN LET r == power_on(irr_duration_auto(p), run)
         IN  [pump |-> [busy |-> PUMP_BUSY_AUTO, timestamp |-> t + r.slept,
                        status |-> r.status],
              schedule |-> FALSE, called |-> 1, at |-> t, slept |-> r.slept,
              status |-> r.status, pin |-> r.pin]
    ELSE Skip(pu, FALSE, t)

\* fault: busy keeps PUMP_BUSY_AUTO when power_on returns a non-zero status
PumpStep_KeepBusy(p, pu, act, run, t) ==
    IF ~act THEN Skip(pu, FALSE, t)
    ELSE IF (t - pu.timestamp) < irr_rest THEN Skip(pu, TRUE, t)
    ELSE IF pu.busy = 0
    THEN LET r == power_on(irr_duration_auto(p), run)
         IN  [pump |-> [busy |-> IF r.status = 0 THEN 0 ELSE PUMP_BUSY_AUTO,
                        timestamp |-> t + r.slept,
                        status |-> r.status],
              schedule |-> FALSE, called |-> 1, at |-> t, slept |-> r.slept,
              status |-> r.status, pin |-> r.pin]
    ELSE Skip(pu, FALSE, t)

(***************************************************************************)
(* One pass of the loop  for p in range(2)  over the pumps: pu is          *)
(* m_pump.pumps[p], act is activate[p], t the time the pass starts at and  *)
(* run what a power_on call of this pass reads.  busy is PUMP_BUSY_AUTO    *)
(* during the call and 0 after it; timestamp is the time() read after the  *)
(* call.  called counts the power_on calls, status is what power_on        *)
(* returned (NoCall if it was not called).                                 *)
(***************************************************************************)
PumpStep(p, pu, act, run, t) ==
    IF ~act THEN Skip(pu, FALSE, t)
    ELSE IF (t - pu.timestamp) < irr_rest THEN Skip(pu, TRUE, t)
    ELSE IF pu.busy = 0
    THEN LET r == power_on(irr_duration_auto(p), run)
         IN  [pump |-> [busy |-> 0, timestamp |-> t + r.slept,
                        status |-> r.status],
              schedule |-> FALSE, called |-> 1, at |-> t, slept |-> r.slept,
              status |-> r.status, pin |-> r.pin]
    ELSE Skip(pu, FALSE, t)

\* fault: the pass of the second pump works on the Pump object of the first
PumpLoop_SharedPump(ord, act, runs) ==
    LET a == PumpStep(ord[1], pumps[ord[1]], act[ord[1]], runs[ord[1]], now)
        b == PumpStep(ord[2], a.pump, act[ord[2]], runs[ord[2]],
                      now + a.slept)
    IN  [p \in Pumps |-> IF p = ord[1] THEN a ELSE b]

\* the loop over the pumps in the order ord (range(2): 0, 1): the pass of
\* the second pump starts when the first one has slept through its run
PumpLoop(ord, act, runs) ==
    LET a == PumpStep(ord[1], pumps[ord[1]], act[ord[1]], runs[ord[1]], now)
        b == PumpStep(ord[2], pumps[ord[2]], act[ord[2]], runs[ord[2]],
                      now + a.slept)
    IN  [p \in Pumps |-> IF p = ord[1] THEN a ELSE b]

(***************************************************************************)
(* History of the auto_irrigation() call of the current cycle (NoIrrigation *)
(* before the call).  t is the time of the call.  For pump p: bad[p], a    *)
(* sensor assigned to p is not valid or has light_il or moist_oh set;      *)
(* dry[p], a sensor assigned to p has moist_ul set (the conditions of the  *)
(* docstring of auto_irrigation); activate, schedule and called as the     *)
(* call computed them; at[p], the time the pass of p started; slept[p],    *)
(* the seconds its power_on slept; status[p], what power_on returned       *)
(* (NoCall if it was not called); run[p] and pin[p], what that power_on    *)
(* read and what it wrote to the pump output; busy0, timestamp0, status0:  *)
(* the pump on entry; swapped[p]: schedule, called, busy and timestamp of  *)
(* p had the loop visited the pumps in the order 1, 0.                     *)
(***************************************************************************)
SensorsOf(p) == { s \in Sensors : sensor_pump[s] = p + 1 }

Outcome(r) ==
    [schedule |-> r.schedule, called |-> r.called, busy |-> r.pump.busy,
     timestamp |-> r.pump.timestamp]

IrrObserve(sv, night, act, r, runs, rev) ==
    [t |-> now, night |-> night,
     bad |-> [p \in Pumps |-> \E s \in SensorsOf(p) :
                 ~valid(s) \/ sv[s].light_il \/ sv[s].moist_oh],
     dry |-> [p \in Pumps |-> \E s \in SensorsOf(p) : sv[s].moist_ul],
     activate |-> act,
     schedule |-> [p \in Pumps |-> r[p].schedule],
     called |-> [p \in Pumps |-> r[p].called],
     at |-> [p \in Pumps |-> r[p].at],
     slept |-> [p \in Pumps |-> r[p].slept],
     status |-> [p \in Pumps |-> r[p].status],
     run |-> [p \in Pumps |-> IF r[p].called > 0 THEN runs[p] ELSE NoRun],
     pin |-> [p \in Pumps |-> r[p].pin],
     busy0 |-> [p \in Pumps |-> pumps[p].busy],
     timestamp0 |-> [p \in Pumps |-> pumps[p].timestamp],
     status0 |-> [p \in Pumps |-> pumps[p].status],
     swapped |-> [p \in Pumps |-> Outcome(rev[p])]]

NoIrrigation ==
    [t |-> 0, night |-> FALSE,
     bad |-> [p \in Pumps |-> FALSE], dry |-> [p \in Pumps |-> FALSE],
     activate |-> [p \in Pumps |-> FALSE],
     schedule |-> [p \in Pumps |-> FALSE],
     called |-> [p \in Pumps |-> 0],
     at |-> [p \in Pumps |-> 0],
     slept |-> [p \in Pumps |-> 0],
     status |-> [p \in Pumps |-> NoCall],
     run |-> [p \in Pumps |-> NoRun],
     pin |-> [p \in Pumps |-> << >>],
     busy0 |-> [p \in Pumps |-> 0], timestamp0 |-> [p \in Pumps |-> 0],
     status0 |-> [p \in Pumps |-> 0],
     swapped |-> [p \in Pumps |->
                    [schedule |-> FALSE, called |-> 0, busy |-> 0,
                     timestamp |-> 0]]]

\* a call that activates nothing
Idle(pu) == Skip(pu, FALSE, now)

(***************************************************************************)
(* Irrigation.auto_irrigation().  sv[s]: the flags of sensor s; runs[p]:   *)
(* what a power_on of pump p reads.  During the night the call returns     *)
(* [False, False] at once; otherwise it computes activate[p] for both      *)
(* pumps and then visits the pumps in the order 0, 1.  The clock goes on   *)
(* while power_on sleeps.                                                  *)
(***************************************************************************)
auto_irrigation(sv, runs) ==
    \E night \in {InNightTest} :
    \E act \in {[p \in Pumps |-> ~night /\ Activate(p, 1, sv)]} :
    \E r \in {IF night THEN [p \in Pumps |-> Idle(pumps[p])]
                       ELSE PumpLoop(<< 0, 1 >>, act, runs)},
       rev \in {IF night THEN [p \in Pumps |-> Idle(pumps[p])]
                         ELSE PumpLoop(<< 1, 0 >>, act, runs)} :
        /\ pumps' = [p \in Pumps |-> r[p].pump]
        /\ irr_scheduled' = [p \in Pumps |-> r[p].schedule]
        /\ now' = now + r[0].slept + r[1].slept
        /\ ilast' = IrrObserve(sv, night, act, r, runs, rev)

\* pump p is one whose power_on this call of auto_irrigation() can call:
\* only the power_on of such a pump reads anything
CanRun(p, sv) ==
    /\ ~InNightTest
    /\ Activate(p, 1, sv)
    /\ pumps[p].busy = 0
    /\ now + (IF p = 0 THEN 0 ELSE irr_duration_auto(0)) - pumps[p].timestamp
          >= irr_rest

(***************************************************************************)
(* main(): the step  if (cfg.settings.auto_irrigation):                    *)
(*                       cfg.settings.irr_scheduled = auto_irrigation()    *)
(***************************************************************************)
AutoIrrigation ==
    /\ ~halted
    /\ pc = PcIrr
    /\ settings.auto_irrigation
    /\ \E sv \in {f \in [Sensors -> Readings] :
                     \A s \in Sensors : ~valid(s) => f[s] = NoReading} :
       \E can \in {[p \in Pumps |-> CanRun(p, sv)]} :
       \E r0 \in (IF can[0] THEN Runs(irr_duration_auto(0)) ELSE {NoRun}),
          r1 \in (IF can[1] THEN Runs(irr_duration_auto(1)) ELSE {NoRun}) :
          auto_irrigation(sv, [p \in Pumps |-> IF p = 0 THEN r0 ELSE r1])
    /\ pc' = PcEnd
    /\ boot' = Logged("irrigation")
    /\ UNCHANGED << config, alert_vars, halted, irr_config, sensor_tstamp,
                    settings, inifile, rtc >>
    /\ UNCHANGED host_vars

(***************************************************************************)
(* The standby loop of main() and the sensor data of the next cycle, for   *)
(* the irrigation alone: the clock advances, update_sensor() stores the    *)
(* time in the tstamp of every sensor in `upd` that delivered data, and    *)
(* the cycle arrives at its irrigation step again.                         *)
(***************************************************************************)
IrrNextCycle ==
    /\ ~halted
    /\ pc = PcEnd
    /\ ~settings.deep_sleep
    /\ \E d \in 1..MaxStep :
          /\ now + d <= IrrMaxTime
          /\ now' = now + d
    /\ \E upd \in SUBSET Sensors :
          sensor_tstamp' = [s \in Sensors |->
                               IF s \in upd THEN now' ELSE sensor_tstamp[s]]
    /\ pc' = PcIrr
    /\ ilast' = NoIrrigation
    /\ boot' = [boot EXCEPT !.log = << >>]
    /\ UNCHANGED << config, alert_vars, halted, irr_config, pumps,
                    irr_scheduled, settings, inifile, rtc >>
    /\ UNCHANGED host_vars

(***************************************************************************)
(* main(), the start of a cycle up to the call of man_irrigation(), for    *)
(* the irrigation alone: every sensor delivers data and update_sensor()    *)
(* stores the time in its tstamp; the checks of the Alerts (all in mode 0) *)
(* are left out.  The history of the latest deep sleep (boot.asleep) ends  *)
(* here.                                                                   *)
(***************************************************************************)
SensorData ==
    /\ ~halted
    /\ pc = 1
    /\ sensor_tstamp' = [s \in Sensors |-> now]
    /\ pc' = PcMan
    /\ boot' = [boot EXCEPT !.asleep = << >>]
    /\ UNCHANGED << now, config, alert_vars, halted, irr_config, pumps,
                    irr_scheduled, ilast, settings, inifile, rtc >>
    /\ UNCHANGED host_vars

(***************************************************************************)
(* State after the constructors of main().                                 *)
(***************************************************************************)
\* Alert.__init__ for every Alert, and the class attribute alert_tstamp
AlertsConstructed ==
    /\ alert_tstamp = 0
    /\ tstamp = [a \in AlertIds |-> 0]
    /\ flag = [a \in AlertIds |-> FALSE]
    /\ val_ul = [a \in AlertIds |-> 0]
    /\ val_oh = [a \in AlertIds |-> 0]
    /\ status = [a \in AlertIds |-> FALSE]
    /\ fired = [a \in AlertIds |-> FALSE]
    /\ ever = [a \in AlertIds |-> FALSE]
    /\ last = NoCheck

\* Pump.error
error(pu) == pu.status = 2

(***************************************************************************)
(* The 'system' Alerts main() appends to `alerts`: the object and the      *)
(* attribute each of them monitors.  The two Alerts on the attribute       *)
(* `error` of the pumps are commented out.                                 *)
(***************************************************************************)
SystemAlerts ==
    { [obj |-> "tank", index |-> 0, attr |-> "low"],
      [obj |-> "tank", index |-> 0, attr |-> "empty"] }

\* Pump.__init__
NewPump == [busy |-> 0, timestamp |-> 0, status |-> 0]

\* Pump.__init__ for both pumps, Settings.__init__
PumpsConstructed ==
    /\ pumps = [p \in Pumps |-> NewPump]
    /\ irr_scheduled = [p \in Pumps |-> FALSE]
    /\ ilast = NoIrrigation

(***************************************************************************)
(* The document json.dumps() writes and json.loads() reads: numbers,       *)
(* booleans and lists (a tuple is written as a list).  NoBlob is an RTC    *)
(* memory that holds no JSON document (empty, or cut inside one).          *)
(***************************************************************************)
JNum(n) == [j |-> "num", n |-> n, b |-> FALSE, items |-> << >>]
JBool(b) == [j |-> "bool", n |-> 0, b |-> b, items |-> << >>]
JArr(xs) == [j |-> "arr", n |-> 0, b |-> FALSE, items |-> xs]
NoBlob == [j |-> "none", n |-> 0, b |-> FALSE, items |-> << >>]

\* the kinds of the items of a list
Kinds(v) == [k \in 1..Len(v.items) |-> v.items[k].j]

\* fault: the getter leaves the previous vectors and status out
AlertState_NoVectors(a) ==
    JArr(<< JNum(alert_tstamp), JNum(tstamp[a]), JBool(flag[a]),
            JNum(0), JNum(0), JBool(FALSE) >>)

\* fault: the getter leaves the class attribute out (writes 0 for it)
AlertState_NoClassTstamp(a) ==
    JArr(<< JNum(0), JNum(tstamp[a]), JBool(flag[a]),
            JNum(val_ul[a]), JNum(val_oh[a]), JBool(status[a]) >>)

\* Alert.state (getter)
AlertState(a) ==
    JArr(<< JNum(alert_tstamp), JNum(tstamp[a]), JBool(flag[a]),
            JNum(val_ul[a]), JNum(val_oh[a]), JBool(status[a]) >>)

\* Sensor.state (getter)
SensorState(s) == JNum(sensor_tstamp[s])

\* fault: the getter leaves the timestamp out (writes 0 for it)
PumpState_NoTimestamp(p) == JArr(<< JNum(pumps[p].busy), JNum(0) >>)

\* Pump.state (getter)
PumpState(p) == JArr(<< JNum(pumps[p].busy), JNum(pumps[p].timestamp) >>)

(***************************************************************************)
(* save_state(alerts): the list `state` in the order of its append()       *)
(* calls, as the JSON document stored in the RTC memory.                   *)
(***************************************************************************)
save_state ==
    JArr([a \in AlertIds |-> AlertState(a)]
         \o [s \in Sensors |-> SensorState(s)]
         \o << PumpState(0), PumpState(1) >>
         \o << JBool(settings.auto_irrigation), JBool(settings.auto_report),
               JNum(settings.irr_duration_man), JBool(settings.deep_sleep) >>)

(***************************************************************************)
(* load_state(alerts): the index i of the record each assignment reads.    *)
(* enumerate() leaves i at the last Alert, `i += 1` moves it to the first  *)
(* sensor, and every later assignment is followed by `i += 1`.  Python     *)
(* counts from 0, the sequences here from 1.                               *)
(***************************************************************************)
PosAlert(a) == a

PosSensor(s) == Len(AlertList) + s

\* fault: the two pump records are read in the reverse order
PosPump_Swapped(p) == Len(AlertList) + NumSensors + 2 - p

PosPump(p) == Len(AlertList) + NumSensors + 1 + p

\* k = 1..4: auto_irrigation, auto_report, irr_duration_man, deep_sleep
PosSetting(k) == Len(AlertList) + NumSensors + 2 + k

NumRecords == Len(AlertList) + NumSensors + 2 + 4

\* the records whose setter unpacks a tuple, and the length it unpacks
Unpacked(i) ==
    IF i \in {PosAlert(a) : a \in AlertIds} THEN 6
    ELSE IF i \in {PosPump(p) : p \in Pumps} THEN 2
    ELSE 0

\* the assignment of record i raises: state[i] does not exist, or it is
\* not a list (TypeError) or a list of another length (ValueError) where
\* the setter unpacks one
Raises(doc, i) ==
    \/ i > Len(doc)
    \/ Unpacked(i) # 0 /\ (doc[i].j # "arr" \/ Len(doc[i].items) # Unpacked(i))

\* the first record whose assignment raises, 0 if none does
FirstRaise(doc) ==
    LET bad == {i \in 1..NumRecords : Raises(doc, i)}
    IN  IF bad = {} THEN 0 ELSE CHOOSE i \in bad : \A k \in bad : i <= k

RaisedBy(doc, i) ==
    IF i = 0 THEN "none"
    ELSE IF i > Len(doc) THEN "IndexError"
    ELSE IF doc[i].j # "arr" THEN "TypeError"
    ELSE "ValueError"

\* the kinds the fields of record i have in a document save_state wrote
Expected(i) ==
    IF i \in {PosAlert(a) : a \in AlertIds}
    THEN << "arr", << "num", "num", "bool", "num", "num", "bool" >> >>
    ELSE IF i \in {PosSensor(s) : s \in Sensors} THEN << "num", << >> >>
    ELSE IF i \in {PosPump(p) : p \in Pumps}
    THEN << "arr", << "num", "num" >> >>
    ELSE IF i = PosSetting(3) THEN << "num", << >> >>
    ELSE << "bool", << >> >>

\* record i is assigned (no earlier assignment raised) ...
Assigned(doc, i) == FirstRaise(doc) = 0 \/ i < FirstRaise(doc)

\* ... and has the kinds of the field it is assigned to
Aligned(doc, i) ==
    /\ Assigned(doc, i)
    /\ << doc[i].j, Kinds(doc[i]) >> = Expected(i)

(***************************************************************************)
(* load_state(alerts) on the RTC memory `blob`: the values the assignments *)
(* leave.  json.loads() raises ValueError on a memory without a document   *)
(* and nothing is assigned; otherwise the records are assigned in order    *)
(* until one raises (exc).  A field that is assigned a value of another    *)
(* kind than save_state writes for it (a list as Sensor.tstamp, a number   *)
(* as a flag) keeps its value here and is reported in `garbled`.           *)
(* Alert.alert_tstamp is assigned by every Alert record, the last one      *)
(* stays.                                                                  *)
(***************************************************************************)
load_state(blob) ==
    IF blob.j # "arr"
    THEN [exc |-> "ValueError", garbled |-> FALSE,
          alert_tstamp |-> alert_tstamp, tstamp |-> tstamp, flag |-> flag,
          val_ul |-> val_ul, val_oh |-> val_oh, status |-> status,
          sensor_tstamp |-> sensor_tstamp, pumps |-> pumps,
          settings |-> settings]
    ELSE
    LET doc == blob.items
        ok == [i \in 1..NumRecords |-> Aligned(doc, i)]
        got == {a \in AlertIds : ok[PosAlert(a)]}
        f(a, k) == doc[PosAlert(a)].items[k]
        st(k) == doc[PosSetting(k)]
    IN  [exc |-> RaisedBy(doc, FirstRaise(doc)),
         garbled |-> \E i \in 1..NumRecords : Assigned(doc, i) /\ ~ok[i],
         alert_tstamp |->
             IF got = {} THEN alert_tstamp
             ELSE f(CHOOSE a \in got : \A c \in got : c <= a, 1).n,
         tstamp |-> [a \in AlertIds |->
             IF a \in got THEN f(a, 2).n ELSE tstamp[a]],
         flag |-> [a \in AlertIds |->
             IF a \in got THEN f(a, 3).b ELSE flag[a]],
         val_ul |-> [a \in AlertIds |->
             IF a \in got THEN f(a, 4).n ELSE val_ul[a]],
         val_oh |-> [a \in AlertIds |->
             IF a \in got THEN f(a, 5).n ELSE val_oh[a]],
         status |-> [a \in AlertIds |->
             IF a \in got THEN f(a, 6).b ELSE status[a]],
         sensor_tstamp |-> [s \in Sensors |->
             IF ok[PosSensor(s)] THEN doc[PosSensor(s)].n
             ELSE sensor_tstamp[s]],
         pumps |-> [p \in Pumps |->
             IF ok[PosPump(p)]
             THEN [pumps[p] EXCEPT !.busy = doc[PosPump(p)].items[1].n,
                                   !.timestamp = doc[PosPump(p)].items[2].n]
             ELSE pumps[p]],
         settings |->
             [auto_irrigation |-> IF ok[PosSetting(1)] THEN st(1).b
                                  ELSE settings.auto_irrigation,
              auto_report |-> IF ok[PosSetting(2)] THEN st(2).b
                              ELSE settings.auto_report,
              irr_duration_man |-> IF ok[PosSetting(3)] THEN st(3).n
                                   ELSE settings.irr_duration_man,
              deep_sleep |-> IF ok[PosSetting(4)] THEN st(4).b
                             ELSE settings.deep_sleep]]

(***************************************************************************)
(* History of the persistence: what save_state() saw (saved), whether the  *)
(* RTC memory still is the document it wrote (intact), the exception and   *)
(* the misassignments of the latest load_state(), and the same fields as   *)
(* they were when machine.deepsleep() was called (asleep).                 *)
(***************************************************************************)
Snapshot ==
    [alert_tstamp |-> alert_tstamp, tstamp |-> tstamp, flag |-> flag,
     val_ul |-> val_ul, val_oh |-> val_oh, status |-> status,
     sensor_tstamp |-> sensor_tstamp,
     busy |-> [p \in Pumps |-> pumps[p].busy],
     timestamp |-> [p \in Pumps |-> pumps[p].timestamp],
     settings |-> settings]

\* the controller was switched on
PowerOn ==
    [cause |-> "PWRON_RESET", loaded |-> FALSE, log |-> << >>,
     saved |-> << >>, intact |-> TRUE, exc |-> "none", garbled |-> FALSE,
     asleep |-> << >>]

\* fault: the cycle goes to deep sleep without save_state()
SaveState_Skipped ==
    /\ ~halted
    /\ pc = PcEnd
    /\ settings.deep_sleep
    /\ pc' = PcSleep
    /\ UNCHANGED << now, config, alert_vars, halted, irr_vars, store_vars >>
    /\ UNCHANGED host_vars

(***************************************************************************)
(* main(): the end of a cycle with settings.deep_sleep, first part:        *)
(* save_state(alerts).                                                     *)
(***************************************************************************)
SaveState ==
    /\ ~halted
    /\ pc = PcEnd
    /\ settings.deep_sleep
    /\ rtc' = save_state
    /\ boot' = [Logged("save_state") EXCEPT !.saved = << Snapshot >>,
                                            !.intact = TRUE]
    /\ pc' = PcSleep
    /\ UNCHANGED << now, config, alert_vars, halted, irr_vars, settings,
                    inifile >>
    /\ UNCHANGED host_vars

(***************************************************************************)
(* main(): the end of a cycle with settings.deep_sleep, second part: the   *)
(* objects are deleted and machine.deepsleep() switches the controller     *)
(* off; only the RTC memory keeps its content.  The variables of the       *)
(* deleted objects are given the values their constructors will give them  *)
(* at the next start of main(); the settings are read from config.ini.     *)
(***************************************************************************)
DeepSleep ==
    /\ ~halted
    /\ pc = PcSleep
    /\ pc' = PcOff
    /\ alert_tstamp' = 0
    /\ tstamp' = [a \in AlertIds |-> 0]
    /\ flag' = [a \in AlertIds |-> FALSE]
    /\ val_ul' = [a \in AlertIds |-> 0]
    /\ val_oh' = [a \in AlertIds |-> 0]
    /\ status' = [a \in AlertIds |-> FALSE]
    /\ sensor_tstamp' = [s \in Sensors |-> 0]
    /\ pumps' = [p \in Pumps |-> NewPump]
    /\ irr_scheduled' = [p \in Pumps |-> FALSE]
    /\ settings' = inifile
    /\ ilast' = NoIrrigation
    /\ boot' = [Logged("deepsleep") EXCEPT !.asleep = << Snapshot >>]
    /\ UNCHANGED << now, config, halted, fired, ever, last, irr_config,
                    inifile, rtc >>
    /\ UNCHANGED host_vars

(***************************************************************************)
(* The timer wakes the controller after processing_period seconds: a       *)
(* reset with machine.reset_cause() = DEEPSLEEP_RESET, main() runs up to   *)
(* the test of the reset cause.                                            *)
(***************************************************************************)
WakeUp ==
    /\ pc = PcOff
    /\ \E d \in 1..MaxStep :
          /\ now + d <= SleepMaxTime
          /\ now' = now + d
    /\ pc' = PcBoot
    /\ boot' = [boot EXCEPT !.cause = "DEEPSLEEP_RESET", !.loaded = FALSE,
                            !.log = << >>, !.exc = "none",
                            !.garbled = FALSE]
    /\ UNCHANGED << config, alert_vars, halted, irr_vars, settings, inifile,
                    rtc >>
    /\ UNCHANGED host_vars

\* the wake-up from deep sleep, with the clock followed up to RestMaxTime
WakeRest ==
    /\ pc = PcOff
    /\ \E d \in 1..MaxStep :
          /\ now + d <= RestMaxTime
          /\ now' = now + d
    /\ pc' = PcBoot
    /\ boot' = [boot EXCEPT !.cause = "DEEPSLEEP_RESET", !.loaded = FALSE,
                            !.log = << >>, !.exc = "none",
                            !.garbled = FALSE]
    /\ UNCHANGED << config, alert_vars, halted, irr_vars, settings, inifile,
                    rtc >>
    /\ UNCHANGED host_vars

(***************************************************************************)
(* A power cycle of a running or sleeping controller: a reset with another *)
(* reset cause, main() runs up to the test of the reset cause with newly   *)
(* constructed objects.  The RTC memory has lost its content.              *)
(***************************************************************************)
PowerCycle ==
    /\ pc # PcBoot
    /\ boot' = PowerOn
    /\ rtc' = NoBlob
    /\ pc' = PcBoot
    /\ halted' = FALSE
    /\ alert_tstamp' = 0
    /\ tstamp' = [a \in AlertIds |-> 0]
    /\ flag' = [a \in AlertIds |-> FALSE]
    /\ val_ul' = [a \in AlertIds |-> 0]
    /\ val_oh' = [a \in AlertIds |-> 0]
    /\ status' = [a \in AlertIds |-> FALSE]
    /\ fired' = [a \in AlertIds |-> FALSE]
    /\ ever' = [a \in AlertIds |-> FALSE]
    /\ last' = NoCheck
    /\ sensor_tstamp' = [s \in Sensors |-> 0]
    /\ pumps' = [p \in Pumps |-> NewPump]
    /\ irr_scheduled' = [p \in Pumps |-> FALSE]
    /\ ilast' = NoIrrigation
    /\ settings' = inifile
    /\ UNCHANGED << now, config, irr_config, inifile >>
    /\ UNCHANGED host_vars

(***************************************************************************)
(* The RTC memory the controller finds at its wake-up is not the document  *)
(* its save_state() wrote for the present lists of Alerts and sensors: the *)
(* memory holds no document, the document has lost records at its end, or  *)
(* it was written for a configuration with one sensor less, one sensor     *)
(* more, or one Alert more and one sensor less.                            *)
(***************************************************************************)
Mismatches(doc) ==
    {NoBlob}
    \cup {JArr(SubSeq(doc, 1, k)) : k \in 0..(Len(doc) - 1)}
    \cup {JArr(SubSeq(doc, 1, PosSensor(1) - 1)
               \o SubSeq(doc, PosSensor(1) + 1, Len(doc)))}
    \cup {JArr(SubSeq(doc, 1, PosSensor(1)) \o << JNum(0) >>
               \o SubSeq(doc, PosSensor(1) + 1, Len(doc)))}
    \cup {JArr(SubSeq(doc, 1, PosSensor(1) - 1) \o << doc[1] >>
               \o SubSeq(doc, PosSensor(1) + 1, Len(doc)))}

LayoutChange ==
    /\ pc = PcOff
    /\ boot.intact
    /\ rtc.j = "arr"
    /\ \E b \in Mismatches(rtc.items) : rtc' = b
    /\ boot' = [boot EXCEPT !.intact = FALSE]
    /\ UNCHANGED << now, config, alert_vars, pc, halted, irr_vars, settings,
                    inifile >>
    /\ UNCHANGED host_vars

(***************************************************************************)
(* main(): if (machine.reset_cause() == machine.DEEPSLEEP_RESET):          *)
(*             load_state(alerts)                                          *)
(* and the main loop starts.  An exception of load_state leaves main().    *)
(***************************************************************************)
LoadState ==
    /\ pc = PcBoot
    /\ IF boot.cause = "DEEPSLEEP_RESET"
       THEN \E r \in {load_state(rtc)} :
               /\ alert_tstamp' = r.alert_tstamp
               /\ tstamp' = r.tstamp
               /\ flag' = r.flag
               /\ val_ul' = r.val_ul
               /\ val_oh' = r.val_oh
               /\ status' = r.status
               /\ sensor_tstamp' = r.sensor_tstamp
               /\ pumps' = r.pumps
               /\ settings' = r.settings
               /\ halted' = (r.exc # "none")
               /\ boot' = [Logged("load_state") EXCEPT !.loaded = TRUE,
                                                       !.exc = r.exc,
                                                       !.garbled = r.garbled]
       ELSE /\ boot' = boot
            /\ UNCHANGED << alert_tstamp, tstamp, flag, val_ul, val_oh, status,
                            sensor_tstamp, pumps, settings, halted >>
    /\ pc' = 1
    /\ UNCHANGED << now, config, fired, ever, last, irr_config, irr_scheduled,
                    ilast, inifile, rtc >>
    /\ UNCHANGED host_vars

(***************************************************************************)
(* The host loop of main(): construction of the Alerts, manual irrigation, *)
(* the standby loop and the 'man_irr_cmd' callback of the MQTT client.     *)
(***************************************************************************)
\* one  alerts.append(m_alert.Alert(settings, mode, check_type, obj, attr1,
\* attr2, name))  of main(): attr2 is "None" where the argument is left out
\* and "NONE" where the undefined name NONE is passed
AlertStmt(check_type, attr1, attr2, name) ==
    [check_type |-> check_type, attr1 |-> attr1, attr2 |-> attr2, name |-> name]

(***************************************************************************)
(* The statements of main() that build `alerts`, in their order, for       *)
(* settings.sensor_interface = iface and settings.temperature_sensor =     *)
(* temp.  The Battery Alert passes the name NONE as attr2; the timeout     *)
(* Alert passes its name "Sensor" in the place of attr2.                   *)
(***************************************************************************)
AlertStatements(iface, temp) ==
    << AlertStmt("sensors", "moist_ul", "moist_oh", "Moisture_Warning"),
       AlertStmt("sensors", "moist_ll", "moist_hl", "Moisture_Info") >>
    \o (IF iface = "mqtt"
        THEN << AlertStmt("sensors", "batt_ul", "NONE", "Battery") >> ELSE << >>)
    \o (IF iface = "mqtt" \/ temp
        THEN << AlertStmt("sensors", "temp_ul", "temp_oh", "Temperature") >> ELSE << >>)
    \o (IF iface # "local"
        THEN << AlertStmt("sensors", "cond_ul", "cond_oh", "Conductivity"),
                AlertStmt("sensors", "light_ul", "light_oh", "Light") >>
        ELSE << >>)
    \o (IF iface = "mqtt"
        THEN << AlertStmt("sensors", "timeout", "Sensor", "") >> ELSE << >>)
    \o << AlertStmt("system", "low", "None", "Tank Low"),
          AlertStmt("system", "empty", "None", "Tank Empty") >>

\* the statements that raise NameError when their arguments are evaluated
Undefined(stmts) == { i \in 1..Len(stmts) : stmts[i].attr2 = "NONE" }

\* the list as the statements leave it: all of them, or those before the
\* first one that raises
Constructed(stmts) ==
    IF Undefined(stmts) = {} THEN stmts
    ELSE SubSeq(stmts, 1,
                (CHOOSE i \in Undefined(stmts) :
                    \A j \in Undefined(stmts) : i <= j) - 1)

\* settings.processing_period, seconds between two cycles
processing_period == 2
\* largest number of 'man_irr_cmd' messages waiting at the client
MaxMsgs == 2
\* number of clock seconds SpecHost follows
HostHorizon == 5
HostMaxTime == Epoch + HostHorizon

NoStep == 0 - 1

(***************************************************************************)
(* History of the host loop.  cmds: number of mqtt_man_irr_cmd calls;      *)
(* exc: the exception the latest handler or constructor raised; req_step:  *)
(* the pass of the standby loop during which the latest mqtt_man_irr_cmd   *)
(* ran; req_busy: the busy of the pumps when it was called; open: no      *)
(* man_irrigation() has been called since; served: the latest              *)
(* man_irrigation() was the first one after a mqtt_man_irr_cmd call;       *)
(* calls: the number of its power_on calls; waited: the number of passes   *)
(* the latest standby loop slept; broke: it was left by its break.         *)
(***************************************************************************)
NoHost ==
    [cmds |-> 0, exc |-> "", req_step |-> NoStep,
     req_busy |-> [p \in Pumps |-> 0], open |-> FALSE, served |-> FALSE,
     calls |-> 0, waited |-> NoStep, broke |-> FALSE]

\* the state of the host loop in the specifications that do not follow it
HostConstructed ==
    /\ micropython = TRUE
    /\ sensor_interface = "ble"
    /\ alerts = Constructed(AlertStatements("ble", FALSE))
    /\ inbox = 0
    /\ net = "running"
    /\ step = 0
    /\ hlast = NoHost

(***************************************************************************)
(* main(): the statements that build `alerts`.  A NameError leaves main()  *)
(* with the list as far as it has been built.                              *)
(***************************************************************************)
ConstructAlerts ==
    /\ ~halted
    /\ pc = PcBoot
    /\ \E temp \in BOOLEAN :
       \E stmts \in {AlertStatements(sensor_interface, temp)} :
          /\ alerts' = Constructed(stmts)
          /\ IF Undefined(stmts) # {}
             THEN /\ halted' = TRUE
                  /\ hlast' = [hlast EXCEPT !.exc = "NameError"]
                  /\ UNCHANGED pc
             ELSE /\ pc' = PcMan
                  /\ UNCHANGED << halted, hlast >>
    /\ UNCHANGED << now, config, alert_vars, irr_vars, store_vars,
                    micropython, sensor_interface, inbox, net, step >>

(***************************************************************************)
(* The broker delivers a message on the topic 'man_irr_cmd' to the client. *)
(***************************************************************************)
Publish ==
    /\ ~halted
    /\ pc # PcBoot
    /\ micropython \/ net = "running"
    /\ inbox < MaxMsgs
    /\ inbox' = inbox + 1
    /\ UNCHANGED << now, config, alert_vars, pc, halted, irr_vars, store_vars,
                    micropython, sensor_interface, alerts, net, step, hlast >>

\* the names the module pump defines at its top level
pump_module == {"pumps", "Pump"}

(***************************************************************************)
(* mqtt_man_irr_cmd: the callback reads  pump.pump.busy ; the module pump  *)
(* has no attribute `pump`, the read raises AttributeError and busy is     *)
(* written for no pump.                                                    *)
(***************************************************************************)
mqtt_man_irr_cmd ==
    IF "pump" \notin pump_module
    THEN [exc |-> "AttributeError", busy |-> [p \in Pumps |-> pumps[p].busy]]
    ELSE [exc |-> "",
          busy |-> [p \in Pumps |->
                       IF pumps[p].busy # 0 THEN pumps[p].busy ELSE PUMP_BUSY_MAN]]

\* hlast after a call of mqtt_man_irr_cmd with result r
Dispatched(r) ==
    [hlast EXCEPT !.cmds = @ + 1, !.exc = r.exc,
                  !.req_step = IF pc = PcWait THEN step ELSE NoStep,
                  !.req_busy = [p \in Pumps |-> pumps[p].busy],
                  !.open = TRUE]

\* the pumps with busy as the callback left it
WithBusy(busy) == [p \in Pumps |-> [pumps[p] EXCEPT !.busy = busy[p]]]

(***************************************************************************)
(* The network thread of the paho client (started by loop_start) calls     *)
(* mqtt_man_irr_cmd for a waiting message, concurrently with main().  An   *)
(* exception of the callback ends the thread.                              *)
(***************************************************************************)
NetworkLoop ==
    /\ ~halted
    /\ ~micropython
    /\ net = "running"
    /\ inbox > 0
    /\ \E r \in {mqtt_man_irr_cmd} :
          /\ pumps' = WithBusy(r.busy)
          /\ net' = IF r.exc # "" THEN "dead" ELSE net
          /\ hlast' = Dispatched(r)
    /\ inbox' = inbox - 1
    /\ UNCHANGED << now, config, alert_vars, pc, halted, irr_config,
                    sensor_tstamp, irr_scheduled, ilast, store_vars,
                    micropython, sensor_interface, alerts, step >>

(***************************************************************************)
(* Irrigation.man_irrigation: every pump with busy == PUMP_BUSY_MAN runs   *)
(* power_on(irr_duration_man), which blocks for the run, and gets busy 0.  *)
(***************************************************************************)
man_irrigation(runs) ==
    \E r \in {[p \in Pumps |->
                 IF pumps[p].busy = PUMP_BUSY_MAN
                 THEN power_on(settings.irr_duration_man, runs[p])
                 ELSE [status |-> NoCall, pin |-> << >>, slept |-> 0]]} :
        /\ pumps' = [p \in Pumps |->
                        IF r[p].status = NoCall THEN pumps[p]
                        ELSE [busy |-> 0, timestamp |-> pumps[p].timestamp,
                              status |-> r[p].status]]
        /\ now' = now + r[0].slept + r[1].slept
        /\ hlast' = [hlast EXCEPT
                        !.calls = Cardinality({p \in Pumps : r[p].status # NoCall}),
                        !.served = hlast.open,
                        !.open = FALSE]

ManIrrigation ==
    /\ ~halted
    /\ pc = PcMan
    /\ \E r0 \in (IF pumps[0].busy = PUMP_BUSY_MAN
                  THEN Runs(settings.irr_duration_man) ELSE {NoRun}),
          r1 \in (IF pumps[1].busy = PUMP_BUSY_MAN
                  THEN Runs(settings.irr_duration_man) ELSE {NoRun}) :
          man_irrigation([p \in Pumps |-> IF p = 0 THEN r0 ELSE r1])
    /\ pc' = PcIrr
    /\ UNCHANGED << config, alert_vars, halted, irr_config, sensor_tstamp,
                    irr_scheduled, ilast, store_vars,
                    micropython, sensor_interface, alerts, inbox, net, step >>

(***************************************************************************)
(* mqtt_client.check_msg() of the MicroPython client: a waiting message is *)
(* dispatched to its callback inside the call, an exception of the         *)
(* callback leaves check_msg() and main().                                 *)
(***************************************************************************)
check_msg ==
    IF micropython /\ inbox > 0
    THEN [called |-> TRUE, r |-> mqtt_man_irr_cmd]
    ELSE [called |-> FALSE, r |-> [exc |-> "", busy |-> [p \in Pumps |-> pumps[p].busy]]]

\* largest payload of a 'man_irr_duration_ctrl' message
MaxManDur == 2

\* mqtt_man_irr_duration_ctrl: cfg.settings.irr_duration_man = int(msg.payload)
mqtt_man_irr_duration_ctrl(payload) ==
    [settings EXCEPT !.irr_duration_man = payload]

\* mqtt_auto_report_ctrl: cfg.settings.auto_report = int(msg.payload); the
\* setting is read as a truth value
mqtt_auto_report_ctrl(payload) ==
    [settings EXCEPT !.auto_report = (payload # 0)]

\* mqtt_auto_irr_ctrl: cfg.settings.auto_irrigation = int(msg.payload)
mqtt_auto_irr_ctrl(payload) ==
    [settings EXCEPT !.auto_irrigation = (payload # 0)]

\* mqtt_sleep_dis_ctrl: cfg.settings.deep_sleep = not(int(msg.payload))
mqtt_sleep_dis_ctrl(payload) ==
    [settings EXCEPT !.deep_sleep = ~(payload # 0)]

\* the messages of the command bus: topic and payload
ControlMsgs ==
    {[topic |-> "man_irr_cmd", payload |-> 1]}
    \cup [topic : {"man_irr_duration_ctrl"}, payload : 1..MaxManDur]
    \cup [topic : {"auto_report_ctrl", "auto_irr_ctrl", "sleep_dis_ctrl"},
          payload : 0..1]

\* mqtt_umqtt_cb: the callback for the topic of message m, on the settings
mqtt_umqtt_cb(m) ==
    CASE m.topic = "man_irr_duration_ctrl" -> mqtt_man_irr_duration_ctrl(m.payload)
      [] m.topic = "auto_report_ctrl" -> mqtt_auto_report_ctrl(m.payload)
      [] m.topic = "auto_irr_ctrl" -> mqtt_auto_irr_ctrl(m.payload)
      [] m.topic = "sleep_dis_ctrl" -> mqtt_sleep_dis_ctrl(m.payload)
      [] OTHER -> settings

(***************************************************************************)
(* main(), the end of a cycle with settings.deep_sleep, between            *)
(* save_state() and the deletion of the objects:                           *)
(*   sleep(2); m_mqtt.mqtt_client.check_msg()                              *)
(* with a message waiting at the client: its callback runs inside          *)
(* check_msg(); an exception of the callback leaves main().                *)
(***************************************************************************)
SleepCheckMsg ==
    /\ ~halted
    /\ pc = PcSleep
    /\ micropython
    /\ boot.log # << >> /\ boot.log[Len(boot.log)] = "save_state"
    /\ \E m \in ControlMsgs :
          IF m.topic = "man_irr_cmd"
          THEN \E r \in {mqtt_man_irr_cmd} :
                  /\ pumps' = WithBusy(r.busy)
                  /\ halted' = (r.exc # "")
                  /\ UNCHANGED settings
          ELSE /\ settings' = mqtt_umqtt_cb(m)
               /\ UNCHANGED << pumps, halted >>
    /\ boot' = Logged("check_msg")
    /\ UNCHANGED << now, config, alert_vars, pc, irr_config, sensor_tstamp,
                    irr_scheduled, ilast, inifile, rtc >>
    /\ UNCHANGED host_vars

(***************************************************************************)
(* main(), from the irrigation to the standby loop with automatic          *)
(* irrigation switched off: the loop of check_msg() calls, then, in daemon *)
(* mode without deep sleep, the start of the standby loop.                 *)
(***************************************************************************)
EndOfCycle ==
    /\ ~halted
    /\ pc = PcIrr
    /\ ~settings.auto_irrigation
    /\ ~settings.deep_sleep
    /\ \E m \in {check_msg} :
          /\ pumps' = WithBusy(m.r.busy)
          /\ inbox' = IF m.called THEN inbox - 1 ELSE inbox
          /\ hlast' = IF m.called THEN Dispatched(m.r)
                       ELSE [hlast EXCEPT !.req_step = NoStep]
          /\ halted' = (m.r.exc # "")
          /\ IF m.r.exc # ""
             THEN UNCHANGED << pc, step >>
             ELSE pc' = PcWait /\ step' = 0
    /\ UNCHANGED << now, config, alert_vars, irr_config, sensor_tstamp,
                    irr_scheduled, ilast, store_vars,
                    micropython, sensor_interface, alerts, net >>

\* the standby loop:  if (m_pump.pumps[0].busy or m_pump.pumps[1].busy): break
StandbyBreak == pumps[0].busy # 0 \/ pumps[1].busy # 0

(***************************************************************************)
(* One pass of the standby loop  for step in range(processing_period) :    *)
(* the break on a busy pump, check_msg() on MicroPython, sleep(1).  When   *)
(* the loop is left the next cycle starts; of that cycle the call of       *)
(* man_irrigation() is followed.                                           *)
(***************************************************************************)
Standby ==
    /\ ~halted
    /\ pc = PcWait
    /\ IF step = processing_period \/ StandbyBreak
       THEN /\ pc' = PcMan
            /\ hlast' = [hlast EXCEPT !.waited = step,
                                      !.broke = (step # processing_period)]
            /\ UNCHANGED << now, pumps, inbox, halted, step >>
       ELSE \E m \in {check_msg} :
               /\ pumps' = WithBusy(m.r.busy)
               /\ inbox' = IF m.called THEN inbox - 1 ELSE inbox
               /\ hlast' = IF m.called THEN Dispatched(m.r) ELSE hlast
               /\ halted' = (m.r.exc # "")
               /\ IF m.r.exc # ""
                  THEN UNCHANGED << now, step, pc >>
                  ELSE /\ now < HostMaxTime
                       /\ now' = now + 1
                       /\ step' = step + 1
                       /\ UNCHANGED pc
    /\ UNCHANGED << config, alert_vars, irr_config, sensor_tstamp,
                    irr_scheduled, ilast, store_vars,
                    micropython, sensor_interface, alerts, net >>

(***************************************************************************)
(* The alert filter: the settings of the alerts come from the config       *)
(* file, automatic irrigation and deep sleep are switched off, the night   *)
(* window and the rest time have the defaults of config.py.                *)
(***************************************************************************)
Init ==
    /\ now = Epoch
    /\ defer_time \in 0..MaxDur
    /\ repeat_time \in 0..MaxDur
    /\ mode \in [AlertIds -> Modes]
    /\ AlertsConstructed
    /\ pc = 1
    /\ halted = FALSE
    /\ night_begin = DayLen
    /\ night_end = 0
    /\ irr_rest = MaxRest
    /\ sensor_pump = [s \in Sensors |-> 1]
    /\ sensor_tstamp = [s \in Sensors |-> 0]
    /\ PumpsConstructed
    /\ settings = [auto_irrigation |-> FALSE, auto_report |-> TRUE,
                   irr_duration_man |-> 1, deep_sleep |-> FALSE]
    /\ inifile = settings
    /\ rtc = NoBlob
    /\ boot = PowerOn
    /\ HostConstructed

Next ==
    \/ CheckSensors
    \/ CheckSystem
    \/ NextCycle

Spec == Init /\ [][Next]_vars

(***************************************************************************)
(* The alert filter in a main loop that goes on for ever: as Spec, with    *)
(* the clock of LiveCycle and the sensors of LiveCheckSensors.  main() is  *)
(* one sequential loop, so a step that is ready is taken; after an         *)
(* exception no step is ready any more.                                    *)
(***************************************************************************)
InitLive ==
    /\ now = LiveNow
    /\ defer_time \in 0..MaxDur
    /\ repeat_time \in 0..MaxDur
    /\ mode \in [AlertIds -> Modes]
    /\ AlertsConstructed
    /\ pc = 1
    /\ halted = FALSE
    /\ night_begin = DayLen
    /\ night_end = 0
    /\ irr_rest = MaxRest
    /\ sensor_pump = [s \in Sensors |-> 1]
    /\ sensor_tstamp = [s \in Sensors |-> 0]
    /\ PumpsConstructed
    /\ settings = [auto_irrigation |-> FALSE, auto_report |-> TRUE,
                   irr_duration_man |-> 1, deep_sleep |-> FALSE]
    /\ inifile = settings
    /\ rtc = NoBlob
    /\ boot = PowerOn
    /\ HostConstructed

NextLive ==
    \/ LiveCheckSensors
    \/ CheckSystem
    \/ LiveCycle

SpecLive ==
    /\ InitLive /\ [][NextLive]_vars
    /\ WF_vars(LiveCheckSensors) /\ WF_vars(CheckSystem) /\ WF_vars(LiveCycle)

(***************************************************************************)
(* The irrigation scheduler: the cycle is followed from its irrigation     *)
(* step on, the alerts are switched off (mode 0) and their checks, which   *)
(* the irrigation does not read, are left out.  The night window, the rest *)
(* time and the pump of every sensor come from the config file; a sensor   *)
(* has delivered data before the first cycle or not.                       *)
(***************************************************************************)
InitIrr ==
    /\ now = IrrEpoch
    /\ defer_time = 0
    /\ repeat_time = 0
    /\ mode = [a \in AlertIds |-> 0]
    /\ AlertsConstructed
    /\ pc = PcIrr
    /\ halted = FALSE
    /\ night_begin \in 0..DayLen
    /\ night_end \in 0..DayLen
    /\ irr_rest \in 0..MaxRest
    /\ sensor_pump \in [Sensors -> 1..2]
    /\ sensor_tstamp \in [Sensors -> {0, IrrEpoch}]
    /\ PumpsConstructed
    /\ settings = [auto_irrigation |-> TRUE, auto_report |-> TRUE,
                   irr_duration_man |-> 1, deep_sleep |-> FALSE]
    /\ inifile = settings
    /\ rtc = NoBlob
    /\ boot = PowerOn
    /\ HostConstructed

NextIrr ==
    \/ AutoIrrigation
    \/ IrrNextCycle

SpecIrr == InitIrr /\ [][NextIrr]_vars

(***************************************************************************)
(* The cycle with deep sleep: settings.deep_sleep and automatic irrigation *)
(* are switched on, every cycle ends in save_state() and deep sleep, and   *)
(* the next one starts with a reset.  As in Init, the night window, the    *)
(* rest time and the pumps of the sensors have their defaults and no       *)
(* sensor has delivered data.                                              *)
(***************************************************************************)
InitSleep ==
    /\ now = Epoch
    /\ defer_time \in 0..MaxDur
    /\ repeat_time \in 0..MaxDur
    /\ mode \in [AlertIds -> Modes]
    /\ AlertsConstructed
    /\ pc = 1
    /\ halted = FALSE
    /\ night_begin = DayLen
    /\ night_end = 0
    /\ irr_rest = MaxRest
    /\ sensor_pump = [s \in Sensors |-> 1]
    /\ sensor_tstamp = [s \in Sensors |-> 0]
    /\ PumpsConstructed
    /\ settings = [auto_irrigation |-> TRUE, auto_report |-> TRUE,
                   irr_duration_man |-> 1, deep_sleep |-> TRUE]
    /\ inifile = settings
    /\ rtc = NoBlob
    /\ boot = PowerOn
    /\ HostConstructed

NextSleep ==
    \/ CheckSensors
    \/ CheckSystem
    \/ AutoIrrigation
    \/ SaveState
    \/ DeepSleep
    \/ WakeUp
    \/ PowerCycle
    \/ LoadState

SpecSleep == InitSleep /\ [][NextSleep]_vars

(***************************************************************************)
(* The host loop in daemon mode without deep sleep and with automatic      *)
(* irrigation switched off: the platform and the sensor interface come     *)
(* from the installation, the alerts are switched off (mode 0) and their   *)
(* checks are left out, 'man_irr_cmd' messages arrive at any time.         *)
(***************************************************************************)
InitHost ==
    /\ now = Epoch
    /\ defer_time = 0
    /\ repeat_time = 0
    /\ mode = [a \in AlertIds |-> 0]
    /\ AlertsConstructed
    /\ pc = PcBoot
    /\ halted = FALSE
    /\ night_begin = DayLen
    /\ night_end = 0
    /\ irr_rest = MaxRest
    /\ sensor_pump = [s \in Sensors |-> 1]
    /\ sensor_tstamp = [s \in Sensors |-> 0]
    /\ PumpsConstructed
    /\ settings = [auto_irrigation |-> FALSE, auto_report |-> TRUE,
                   irr_duration_man |-> 1, deep_sleep |-> FALSE]
    /\ inifile = settings
    /\ rtc = NoBlob
    /\ boot = PowerOn
    /\ micropython \in BOOLEAN
    /\ sensor_interface \in {"local", "ble", "mqtt"}
    /\ alerts = << >>
    /\ inbox = 0
    /\ net = "running"
    /\ step = 0
    /\ hlast = NoHost

NextHost ==
    \/ ConstructAlerts
    \/ Publish
    \/ NetworkLoop
    \/ ManIrrigation
    \/ EndOfCycle
    \/ Standby

SpecHost == InitHost /\ [][NextHost]_vars

(***************************************************************************)
(* The irrigation with deep sleep: every cycle reads the sensors, calls    *)
(* man_irrigation() and auto_irrigation(), saves the state and goes to     *)
(* deep sleep; a message of the command bus may wait at the client when    *)
(* check_msg() is called after save_state().  The alerts are switched off  *)
(* (mode 0), the night window is empty, the rest time and the pump of      *)
(* every sensor come from the config file.                                 *)
(***************************************************************************)
InitRest ==
    /\ now = IrrEpoch
    /\ defer_time = 0
    /\ repeat_time = 0
    /\ mode = [a \in AlertIds |-> 0]
    /\ AlertsConstructed
    /\ pc = 1
    /\ halted = FALSE
    /\ night_begin = DayLen
    /\ night_end = 0
    /\ irr_rest \in 0..MaxRest
    /\ sensor_pump \in [Sensors -> 1..2]
    /\ sensor_tstamp = [s \in Sensors |-> 0]
    /\ PumpsConstructed
    /\ settings = [auto_irrigation |-> TRUE, auto_report |-> TRUE,
                   irr_duration_man |-> 1, deep_sleep |-> TRUE]
    /\ inifile = settings
    /\ rtc = NoBlob
    /\ boot = PowerOn
    /\ HostConstructed

NextRest ==
    \/ SensorData
    \/ ManIrrigation
    \/ AutoIrrigation
    \/ SaveState
    \/ SleepCheckMsg
    \/ DeepSleep
    \/ WakeRest
    \/ LoadState

SpecRest == InitRest /\ [][NextRest]_vars

(***************************************************************************)
(* A single call of auto_irrigation() on pumps as the call can find them:  *)
(* busy 0 or PUMP_BUSY_MAN (a manual request that has not been served),    *)
(* never run or run one second before the call.  The alerts are switched   *)
(* off, the night window is empty; the rest time, the pump of every sensor *)
(* and the sensors that have delivered data are drawn as in InitIrr.       *)
(***************************************************************************)
InitCall ==
    /\ now = IrrEpoch
    /\ defer_time = 0
    /\ repeat_time = 0
    /\ mode = [a \in AlertIds |-> 0]
    /\ AlertsConstructed
    /\ pc = PcIrr
    /\ halted = FALSE
    /\ night_begin = DayLen
    /\ night_end = 0
    /\ irr_rest \in 0..MaxRest
    /\ sensor_pump \in [Sensors -> 1..2]
    /\ sensor_tstamp \in [Sensors -> {0, IrrEpoch}]
    /\ pumps \in [Pumps -> [busy : {0, PUMP_BUSY_MAN},
                            timestamp : {0, IrrEpoch - 1},
                            status : {0}]]
    /\ irr_scheduled = [p \in Pumps |-> FALSE]
    /\ ilast = NoIrrigation
    /\ settings = [auto_irrigation |-> TRUE, auto_report |-> TRUE,
                   irr_duration_man |-> 1, deep_sleep |-> FALSE]
    /\ inifile = settings
    /\ rtc = NoBlob
    /\ boot = PowerOn
    /\ HostConstructed

NextCall == AutoIrrigation

SpecCall == InitCall /\ [][NextCall]_vars

(***************************************************************************)
(* save_state / load_state on arbitrary states: the controller is at the   *)
(* end of a cycle with settings.deep_sleep set.  Of the fields that are    *)
(* saved, up to two (e1, e2) have a value that is not the one the          *)
(* constructors and config.ini give them.  An Alert with flag set has a    *)
(* tstamp; val_ul and val_oh belong to a 'sensors' Alert and status to a   *)
(* 'system' Alert.                                                         *)
(***************************************************************************)
StoreFields ==
    ({"tstamp", "flag"} \X AlertIds)
    \cup ({"val_ul", "val_oh"}
            \X {a \in AlertIds : AlertList[a].check_type = "sensors"})
    \cup ({"status"}
            \X {a \in AlertIds : AlertList[a].check_type # "sensors"})
    \cup ({"sensor"} \X Sensors)
    \cup ({"busy", "timestamp"} \X Pumps)
    \cup ({"alert_tstamp", "auto_irrigation", "auto_report",
           "irr_duration_man", "none"} \X {0})

IniFile ==
    [auto_irrigation |-> TRUE, auto_report |-> TRUE,
     irr_duration_man |-> 1, deep_sleep |-> FALSE]

InitStore ==
    /\ now = Epoch
    /\ defer_time = 0
    /\ repeat_time = 0
    /\ mode = [a \in AlertIds |-> 0]
    /\ pc = PcEnd
    /\ halted = FALSE
    /\ fired = [a \in AlertIds |-> FALSE]
    /\ ever = [a \in AlertIds |-> FALSE]
    /\ last = NoCheck
    /\ night_begin = DayLen
    /\ night_end = 0
    /\ irr_rest = MaxRest
    /\ sensor_pump = [s \in Sensors |-> 1]
    /\ irr_scheduled = [p \in Pumps |-> FALSE]
    /\ ilast = NoIrrigation
    /\ inifile = IniFile
    /\ rtc = NoBlob
    /\ boot = PowerOn
    /\ \E e1 \in StoreFields, e2 \in StoreFields :
       \E D \in {{e1, e2}} :
          /\ alert_tstamp = IF << "alert_tstamp", 0 >> \in D THEN Epoch ELSE 0
          /\ tstamp = [a \in AlertIds |->
                IF << "tstamp", a >> \in D \/ << "flag", a >> \in D
                THEN Epoch ELSE 0]
          /\ flag = [a \in AlertIds |-> << "flag", a >> \in D]
          /\ val_ul = [a \in AlertIds |->
                IF << "val_ul", a >> \in D THEN 1 ELSE 0]
          /\ val_oh = [a \in AlertIds |->
                IF << "val_oh", a >> \in D THEN 2 ELSE 0]
          /\ status = [a \in AlertIds |-> << "status", a >> \in D]
          /\ sensor_tstamp = [s \in Sensors |->
                IF << "sensor", s >> \in D THEN Epoch ELSE 0]
          /\ pumps = [p \in Pumps |->
                [busy |-> IF << "busy", p >> \in D THEN PUMP_BUSY_MAN ELSE 0,
                 timestamp |-> IF << "timestamp", p >> \in D THEN Epoch ELSE 0,
                 status |-> 0]]
          /\ settings =
                [auto_irrigation |-> ~(<< "auto_irrigation", 0 >> \in D),
                 auto_report |-> ~(<< "auto_report", 0 >> \in D),
                 irr_duration_man |->
                     IF << "irr_duration_man", 0 >> \in D THEN 2 ELSE 1,
                 deep_sleep |-> TRUE]
    /\ HostConstructed

NextStore ==
    \/ SaveState
    \/ DeepSleep
    \/ LayoutChange
    \/ WakeUp
    \/ LoadState

SpecStore == InitStore /\ [][NextStore]_vars


(***************************************************************************)
(* Properties of the alert filter.  `last` describes the most recent       *)
(* check() call: the Alert last.a, the time last.t, change/active as the   *)
(* call computed them, the fields on entry (tstamp0, flag0, alert_tstamp0, *)
(* active0, fired0, ever0) and the result last.ret.                        *)
(***************************************************************************)
Checked == last.a \in AlertIds

LastMode == mode[last.a]

\* C1: a mode-2 Alert returns True at the cycle its condition becomes
\* active; at every later cycle in which the condition is still active and
\* shows no rising edge it returns True exactly if now - tstamp > repeat_time,
\* and a repeat restarts tstamp at now (so the repeat is the first such cycle
\* and nothing is returned in between).
C1_Mode2Repeat ==
    (Checked /\ LastMode = 2) =>
        /\ (last.change /\ ~last.active0) => last.ret = "True"
        /\ (~last.change /\ last.active) =>
              /\ (last.ret = "True") = (last.t - last.tstamp0 > repeat_time)
              /\ (last.ret = "True") => tstamp[last.a] = last.t
              /\ (last.ret = "False") => tstamp[last.a] = last.tstamp0

\* C1 for the Alerts that check() delegates to check_sensors
C1_Mode2RepeatSensors ==
    (Checked /\ AlertList[last.a].check_type = "sensors") => C1_Mode2Repeat

\* a mode-2 'sensors' Alert repeated its alert
C1_RepeatReached ==
    /\ Checked /\ LastMode = 2
    /\ AlertList[last.a].check_type = "sensors"
    /\ ~last.change /\ last.active /\ last.fired0
    /\ last.ret = "True"

\* C2: in mode 3 or 4 a rising edge met while now - Alert.alert_tstamp <=
\* defer_time returns False, and as long as the condition stays active and
\* the edge has not been alerted, check() returns True exactly at a cycle in
\* which now - Alert.alert_tstamp > defer_time (hence at the first one).
C2_DeferredAlert ==
    (Checked /\ LastMode \in {3, 4}) =>
        /\ (last.change /\ last.t - last.alert_tstamp0 <= defer_time)
              => last.ret = "False"
        /\ (last.active0 /\ ~last.fired0 /\ last.active) =>
              (last.ret = "True") = (last.t - last.alert_tstamp0 > defer_time)

\* a suppressed edge of a mode 3/4 Alert is alerted at a later cycle
C2_DeferredReached ==
    /\ Checked /\ LastMode \in {3, 4}
    /\ last.active0 /\ ~last.fired0 /\ ~last.change /\ last.active
    /\ last.alert_tstamp0 # 0
    /\ last.ret = "True"

\* C3: a mode-4 Alert that has alerted and whose condition stays active
\* without a new rising edge returns True again exactly when repeat_time has
\* elapsed since its previous alert (tstamp), not earlier.
C3_Mode4Repeat ==
    (Checked /\ LastMode = 4 /\ last.fired0 /\ ~last.change /\ last.active) =>
        (last.ret = "True") = (last.t - last.tstamp0 > repeat_time)

\* C4: a mode-1 Alert returns True in the cycle of a rising edge and in no
\* cycle without one, whether the condition is active or not.
C4_Mode1OnlyAtEdge ==
    (Checked /\ LastMode = 1) => ((last.ret = "True") = last.change)

\* a mode-1 Alert stays silent while its alerted condition persists
C4_SilentReached ==
    /\ Checked /\ LastMode = 1
    /\ last.fired0 /\ ~last.change /\ last.active
    /\ last.ret = "False"

\* C5: a mode-0 Alert never returns True and never changes
\* Alert.alert_tstamp.
C5_Mode0Silent ==
    (Checked /\ LastMode = 0) =>
        (last.ret = "False" /\ alert_tstamp = last.alert_tstamp0)

\* a mode-0 Alert sees a rising edge after another Alert has alerted
C5_EdgeReached ==
    /\ Checked /\ LastMode = 0
    /\ last.change /\ last.alert_tstamp0 # 0
    /\ tstamp[last.a] = last.t

\* C6: in mode 3 flag is False after a check() that returns True, and once
\* the Alert has alerted, check() does not return True again while the
\* condition stays active with no new rising edge.
C6_Mode3Once ==
    (Checked /\ LastMode = 3) =>
        /\ (last.ret = "True") => ~flag[last.a]
        /\ (last.fired0 /\ ~last.change /\ last.active) => last.ret # "True"

\* a mode-3 Alert stays silent after its alert although the defer window
\* of that alert has expired
C6_SilentReached ==
    /\ Checked /\ LastMode = 3
    /\ last.fired0 /\ ~last.change /\ last.active
    /\ last.t - last.alert_tstamp0 > defer_time
    /\ last.ret = "False"

\* C7: a mode 3/4 Alert returns True only at a time more than defer_time
\* after the value Alert.alert_tstamp has when the check starts, whichever
\* instance set it.
C7_DeferSpacing ==
    (Checked /\ LastMode \in {3, 4} /\ last.ret = "True") =>
        last.t - last.alert_tstamp0 > defer_time

\* a mode 3/4 Alert alerts for the first time after another instance alerted
C7_AfterOtherReached ==
    /\ Checked /\ LastMode \in {3, 4}
    /\ last.ret = "True" /\ ~last.ever0
    /\ last.alert_tstamp0 # 0

C9_InactiveClears ==
    (Checked /\ ~last.active) => (tstamp[last.a] = 0 /\ ~flag[last.a])

\* a check() finds the condition cleared while tstamp and flag were set
C9_ClearedReached ==
    /\ Checked /\ ~last.active
    /\ last.tstamp0 # 0 /\ last.flag0

\* C10: a check() that returns True leaves Alert.alert_tstamp at the current
\* time, a check() that returns False leaves it unchanged.
C10_AlertTstampFrame ==
    Checked =>
        /\ (last.ret = "True") => alert_tstamp = last.t
        /\ (last.ret = "False") => alert_tstamp = last.alert_tstamp0

\* a check() returning True moves Alert.alert_tstamp forward
C10_UpdateReached ==
    /\ Checked /\ last.ret = "True"
    /\ last.alert_tstamp0 # 0 /\ last.alert_tstamp0 < last.t
    /\ alert_tstamp = last.t

\* what the most recent check() call left behind
Left ==
    [tstamp |-> tstamp[last.a], flag |-> flag[last.a],
     alert_tstamp |-> alert_tstamp, ret |-> last.ret]

\* C24: check_system returns the same boolean and leaves the same tstamp,
\* flag and Alert.alert_tstamp as check_sensors called in the same state
\* on a single item with no second attribute.
C24_SystemAsSensors ==
    (Checked /\ AlertList[last.a].check_type = "system") => Left = last.twin

\* C25: a check() in which the bits of two or more items rise returns one
\* boolean and leaves tstamp, flag and Alert.alert_tstamp as the same call
\* with the rising edge of one item does: tstamp is the time of the call
\* and Alert.alert_tstamp is that time or its previous value.
C25_OneChangeEvent ==
    (Checked /\ last.edges >= 2) =>
        /\ last.ret \in {"True", "False"}
        /\ Left = last.twin
        /\ tstamp[last.a] = last.t
        /\ alert_tstamp \in {last.alert_tstamp0, last.t}

\* a check() finds rising edges of two items, one in each vector, while a
\* third condition was already active
C25_TwoEdgesReached ==
    /\ Checked /\ last.edges >= 2
    /\ last.tstamp0 # 0 /\ last.tstamp0 < last.t
    /\ last.ret = "True"

\* C36: in a check_sensors call, change is true exactly if the bit of some
\* item rose, whatever bits were set before; when the bit of one item rises
\* while the condition was already active, modes 1 and 2 return True and
\* restart tstamp at the time of the call.
C36_EdgePerItem ==
    (Checked /\ AlertList[last.a].check_type = "sensors") =>
        /\ last.change = (last.edges >= 1)
        /\ (last.edges >= 1 /\ last.active0 /\ LastMode \in {1, 2}) =>
              (last.ret = "True" /\ tstamp[last.a] = last.t)

\* the bit of one item rises in a mode-1 Alert whose condition has been
\* active since an earlier cycle
C36_SecondItemReached ==
    /\ Checked /\ AlertList[last.a].check_type = "sensors"
    /\ LastMode = 1 /\ last.edges = 1 /\ last.active0
    /\ last.tstamp0 # 0 /\ last.tstamp0 < last.t
    /\ last.ret = "True" /\ tstamp[last.a] = last.t

\* C35: in mode 3 or 4 a check() that finds the condition inactive returns
\* False and clears tstamp and flag, also when a suppressed edge was still
\* waiting for the defer window; and with flag clear on entry a call without
\* a rising edge returns False whatever the state of the window, so nothing
\* is alerted for that activation before a new edge.
C35_ClearedEdgeStaysSilent ==
    /\ (Checked /\ LastMode \in {3, 4}) =>
          /\ ~last.active =>
                (last.ret = "False" /\ tstamp[last.a] = 0 /\ ~flag[last.a])
          /\ (~last.flag0 /\ ~last.change) =>
                (last.ret = "False" /\ ~flag[last.a])
    /\ \A a \in AlertIds :
          (mode[a] \in {3, 4} /\ ~WasActive(a)) => (~flag[a] /\ tstamp[a] = 0)

\* a suppressed edge of a mode 3/4 Alert is still waiting, inside the defer
\* window, when the condition is found inactive
C35_ClearedInsideWindowReached ==
    /\ Checked /\ LastMode \in {3, 4}
    /\ last.active0 /\ last.flag0 /\ ~last.fired0 /\ last.tstamp0 # 0
    /\ ~last.active
    /\ last.t - last.alert_tstamp0 <= defer_time
    /\ last.ret = "False" /\ tstamp[last.a] = 0 /\ ~flag[last.a]

\* C27: scenario of a 'sensors' Alert with mode 2, defer_time 0 and the
\* largest repeat_time: the check that meets the rising edge returns True;
\* with the condition still active and no further edge, a check up to
\* repeat_time after that alert returns False and leaves tstamp at the time
\* of the alert, and the check at repeat_time + 1 after it returns True.
C27_RepeatScenario ==
    (/\ Checked /\ AlertList[last.a].check_type = "sensors"
     /\ LastMode = 2 /\ defer_time = 0 /\ repeat_time = MaxDur) =>
        /\ (last.change /\ ~last.active0) =>
              (last.ret = "True" /\ tstamp[last.a] = last.t)
        /\ (~last.change /\ last.active /\ last.t - last.tstamp0 <= repeat_time) =>
              (last.ret = "False" /\ tstamp[last.a] = last.tstamp0)
        /\ (~last.change /\ last.active /\ last.t - last.tstamp0 = repeat_time + 1) =>
              (last.ret = "True" /\ tstamp[last.a] = last.t)

\* the second alert of the scenario: the alert of the edge has been
\* returned, the condition stayed active and repeat_time + 1 has passed
C27_SecondAlertReached ==
    /\ Checked /\ AlertList[last.a].check_type = "sensors"
    /\ LastMode = 2 /\ defer_time = 0 /\ repeat_time = MaxDur
    /\ ~last.change /\ last.active /\ last.fired0
    /\ last.t - last.tstamp0 = repeat_time + 1
    /\ last.ret = "True"

(***************************************************************************)
(* Properties of the irrigation scheduler.  `ilast` describes the          *)
(* auto_irrigation() call of the current cycle once the cycle is at PcEnd: *)
(* the call was made at the time ilast.t, the pass of pump p over the pump *)
(* loop read the clock at ilast.at[p], and the power_on of that pass       *)
(* returned at ilast.at[p] + ilast.slept[p].                               *)
(***************************************************************************)
Irrigated == pc = PcEnd /\ ilast.t # 0

\* the time of the call lies in the configured night window [night_begin,
\* night_end), an interval of the time of day which runs over midnight if
\* night_begin > night_end
InNightWindow ==
    LET tod == ilast.t % DayLen
    IN  IF night_begin <= night_end
        THEN night_begin <= tod /\ tod < night_end
        ELSE tod >= night_begin \/ tod < night_end

\* the watering conditions of pump p are met: outside the night window,
\* no sensor of p invalid or with light_il or moist_oh, one with moist_ul
ConditionsMet(p) == ~InNightWindow /\ ~ilast.bad[p] /\ ilast.dry[p]

\* C13: an auto_irrigation() call made at a time inside the night window
\* [night_begin, night_end) calls power_on for no pump and leaves busy and
\* timestamp of both pumps as they were, whatever the sensors report.
C13_NoIrrigationAtNight ==
    (Irrigated /\ InNightWindow) =>
        \A p \in Pumps :
            /\ ilast.called[p] = 0
            /\ pumps[p].busy = ilast.busy0[p]
            /\ pumps[p].timestamp = ilast.timestamp0[p]

\* a call inside the night window, with a pump that was run before, is dry
\* again, has no excluding sensor and has rested
C13_NightReached ==
    /\ Irrigated /\ InNightWindow
    /\ \E p \in Pumps :
          /\ ~ilast.bad[p] /\ ilast.dry[p]
          /\ ilast.t - ilast.timestamp0[p] >= irr_rest
          /\ ilast.timestamp0[p] # 0

\* C14: for a pump whose watering conditions are all met, a call that
\* finds now - timestamp < irr_rest (now: the clock as the pass of the pump
\* reads it) reports the pump as scheduled and does not call power_on for
\* it.
C14_ScheduledWhileResting ==
    \A p \in Pumps :
        (Irrigated /\ ConditionsMet(p)
            /\ ilast.at[p] - ilast.timestamp0[p] < irr_rest) =>
                (ilast.schedule[p] /\ irr_scheduled[p] /\ ilast.called[p] = 0)

\* a pump that was run before is reported as scheduled
C14_ScheduledReached ==
    /\ Irrigated
    /\ \E p \in Pumps :
          /\ ConditionsMet(p)
          /\ ilast.timestamp0[p] # 0
          /\ ilast.at[p] - ilast.timestamp0[p] < irr_rest
          /\ ilast.schedule[p]
          /\ pumps[p].timestamp = ilast.timestamp0[p]

\* C15: for a pump whose watering conditions are all met, whose rest time
\* has expired and whose busy is 0, the call runs power_on and sets the
\* timestamp of the pump to the time at which power_on returns.
C15_IrrigationRuns ==
    \A p \in Pumps :
        (Irrigated /\ ConditionsMet(p)
            /\ ilast.at[p] - ilast.timestamp0[p] >= irr_rest
            /\ ilast.busy0[p] = 0) =>
                /\ ilast.called[p] = 1
                /\ pumps[p].timestamp = ilast.at[p] + ilast.slept[p]

\* C16: a pump with a sensor that is invalid or reports light_il or
\* moist_oh is neither run nor reported as scheduled by the call.
C16_ExcludingSensor ==
    \A p \in Pumps :
        (Irrigated /\ ilast.bad[p]) =>
            (ilast.called[p] = 0 /\ ~ilast.schedule[p])

\* C20: when power_on of pump p returns a non-zero status, power_on was
\* called once for p, busy of p is 0 after the call, and the other pump q
\* was evaluated as usual (run if it is to be activated, rested and not
\* busy; scheduled if it is to be activated and resting); in a cycle after
\* a failed run, activate[p] is computed from the sensors of that cycle.
C20_FailedRunIsLocal ==
    \A p \in Pumps :
        /\ (Irrigated /\ ilast.status[p] \notin {0, NoCall}) =>
              /\ ilast.called[p] = 1
              /\ pumps[p].busy = 0
              /\ \A q \in Pumps \ {p} :
                    /\ (ilast.activate[q] /\ ilast.busy0[q] = 0
                          /\ ilast.at[q] - ilast.timestamp0[q] >= irr_rest)
                            => ilast.called[q] = 1
                    /\ (ilast.activate[q]
                          /\ ilast.at[q] - ilast.timestamp0[q] < irr_rest)
                            => ilast.schedule[q]
        /\ (Irrigated /\ ilast.status0[p] # 0 /\ ~ilast.night
              /\ ~ilast.bad[p]) => (ilast.activate[p] = ilast.dry[p])

\* the run of pump 0 fails and pump 1 is run in the same call
C20_OtherPumpReached ==
    /\ Irrigated
    /\ ilast.status[0] \notin {0, NoCall}
    /\ ilast.called[1] = 1
    /\ pumps[0].busy = 0

\* the flag Alert m monitors is set because of the status power_on left in
\* pump p: the empty tank (status 1) or the error of the pump (status 2)
Surfaces(m, p) ==
    \/ m.obj = "tank" /\ m.attr = "empty" /\ pumps[p].status = 1
    \/ m.obj = "pump" /\ m.index = p /\ m.attr = "error" /\ error(pumps[p])

\* C21 (SpecIrr): when power_on has left status 1 or 2 in a pump, the list
\* of Alerts holds a 'system' Alert whose flag is set because of that
\* failure.
C21_FailureSurfaced ==
    \A p \in Pumps :
        (Irrigated /\ pumps[p].status \in {1, 2}) =>
            \E m \in SystemAlerts : Surfaces(m, p)

\* C22 (SpecIrr): at the end of a cycle the timestamp of a pump is the time
\* at which its latest completed irrigation ended: an auto_irrigation()
\* call sets it to the time power_on returns if power_on ran the pump for
\* the full duration (status 0), and leaves it as it was otherwise.
C22_TimestampIsLastIrrigation ==
    \A p \in Pumps :
        Irrigated =>
            pumps[p].timestamp =
                IF ilast.called[p] = 1 /\ ilast.status[p] = 0
                THEN ilast.at[p] + ilast.slept[p]
                ELSE ilast.timestamp0[p]

\* the outcome of the call for pump p: what it reports and leaves in p
CallOutcome(p) ==
    [schedule |-> ilast.schedule[p], called |-> ilast.called[p],
     busy |-> pumps[p].busy, timestamp |-> pumps[p].timestamp]

\* the pass of pump p has left the other pump q as the call found it
LeftAlone(q) ==
    /\ pumps[q].busy = ilast.busy0[q]
    /\ pumps[q].timestamp = ilast.timestamp0[q]

\* C23 as stated (SpecIrr): the outcome of an auto_irrigation() call for
\* pump p (scheduled, power_on called, busy, timestamp) is the one the call
\* would have had with the pumps visited in the other order, and a pump
\* whose power_on was not called keeps its busy and timestamp.
C23_OrderImmaterial ==
    Irrigated =>
        \A p \in Pumps :
            /\ CallOutcome(p) = ilast.swapped[p]
            /\ ilast.called[p] = 0 => LeftAlone(p)

\* C23 amended (SpecIrr): the pumps share the clock.  The pass of a pump
\* reads the time when it starts, which is after the power_on of the pump
\* visited before it has returned.  If no power_on of the call sleeps (no
\* pump is run, or every run ends before its first second), the outcome
\* for every pump is the same in both orders; and in every call a pump
\* whose power_on was not called keeps its busy and timestamp, whatever
\* happened to the other pump.
C23_OrderImmaterialWhileNoRun ==
    Irrigated =>
        /\ (\A q \in Pumps : ilast.slept[q] = 0) =>
               \A p \in Pumps : CallOutcome(p) = ilast.swapped[p]
        /\ \A p \in Pumps : ilast.called[p] = 0 => LeftAlone(p)

\* both pumps want water, pump 0 is run and fails at once, pump 1 rests
C23_BothActiveReached ==
    /\ Irrigated
    /\ ilast.activate[0] /\ ilast.activate[1]
    /\ ilast.called[0] = 1 /\ ilast.slept[0] = 0
    /\ ilast.schedule[1]
    /\ ilast.timestamp0[1] # 0
    /\ CallOutcome(1) = ilast.swapped[1]

\* C30 (SpecIrr): a power_on that reads tank.empty at the call returns
\* status 1 without writing to the pump output; a power_on that reads
\* tank.empty at pass k of its loop has slept k - 1 seconds and returns
\* status 1; and the last value any power_on wrote to the pump output,
\* whatever its status (0, 1 or 2), is 0.
C30_NoDryRun ==
    \A p \in Pumps :
        (Irrigated /\ ilast.called[p] = 1) =>
            /\ ilast.status[p] \in {0, 1, 2}
            /\ ilast.run[p].empty0 =>
                  (ilast.pin[p] = << >> /\ ilast.status[p] = 1
                     /\ ilast.slept[p] = 0)
            /\ \A k \in 1..Len(ilast.run[p].obs) :
                  ilast.run[p].obs[k] = "empty" =>
                      (ilast.slept[p] = k - 1 /\ ilast.status[p] = 1)
            /\ ilast.pin[p] # << >> =>
                  ilast.pin[p][Len(ilast.pin[p])] = 0

\* a run that finds the tank empty at its second pass
C30_EmptyDuringRunReached ==
    /\ Irrigated
    /\ \E p \in Pumps :
          /\ ilast.called[p] = 1
          /\ ilast.run[p].obs = << "ok", "empty" >>
          /\ ilast.pin[p] = << 1, 0 >>
          /\ ilast.slept[p] = 1

\* the reading that ended the loop of the power_on call of pump p
LastRead(p) ==
    IF ilast.run[p].obs = << >> THEN "ok"
    ELSE ilast.run[p].obs[Len(ilast.run[p].obs)]

\* C39 (SpecIrr): a power_on(on_time) call sleeps at most on_time seconds
\* in its loop and returns a status in {0, 1, 2} that is also the status of
\* the pump: 0 exactly if the loop ran on_time passes, 1 exactly if the
\* tank was empty at the call or in the last pass, 2 exactly if the driver
\* status was wrong in the last pass.
C39_PowerOnTerminates ==
    \A p \in Pumps :
        (Irrigated /\ ilast.called[p] = 1) =>
            /\ ilast.slept[p] <= irr_duration_auto(p)
            /\ ilast.status[p] \in {0, 1, 2}
            /\ pumps[p].status = ilast.status[p]
            /\ (ilast.status[p] = 0) =
                  (/\ ~ilast.run[p].empty0
                   /\ ilast.slept[p] = irr_duration_auto(p)
                   /\ LastRead(p) = "ok")
            /\ (ilast.status[p] = 1) =
                  (ilast.run[p].empty0 \/ LastRead(p) = "empty")
            /\ (ilast.status[p] = 2) =
                  (~ilast.run[p].empty0 /\ LastRead(p) = "drv")

\* pump 1, which has run its full time in an earlier cycle, is cut short
\* by the driver status in the second pass of its loop
C39_FullRunReached ==
    /\ Irrigated /\ ilast.called[1] = 1
    /\ ilast.status[1] = 2 /\ ilast.slept[1] = 1
    /\ ilast.status0[1] = 0 /\ ilast.timestamp0[1] # 0

\* C38 (SpecCall): a pump that is to be activated, has rested and is found
\* with busy # 0 is not run and not reported as scheduled by the call, and
\* its busy and timestamp are left as they were.
C38_BusyPumpLeftAlone ==
    \A p \in Pumps :
        (Irrigated /\ ilast.activate[p] /\ ilast.busy0[p] # 0
            /\ ilast.at[p] - ilast.timestamp0[p] >= irr_rest) =>
                /\ ilast.called[p] = 0
                /\ ~ilast.schedule[p] /\ ~irr_scheduled[p]
                /\ pumps[p].busy = ilast.busy0[p]
                /\ pumps[p].timestamp = ilast.timestamp0[p]

\* a pump that was run before, has rested and is dry again is found busy,
\* while the other pump is run by the same call
C38_BusyPumpReached ==
    /\ Irrigated
    /\ \E p \in Pumps :
          /\ ilast.activate[p] /\ ilast.busy0[p] = PUMP_BUSY_MAN
          /\ ilast.timestamp0[p] # 0
          /\ ilast.at[p] - ilast.timestamp0[p] >= irr_rest
          /\ pumps[p].busy = PUMP_BUSY_MAN
          /\ \E q \in Pumps \ {p} : ilast.called[q] = 1

(***************************************************************************)
(* Properties of the host loop (SpecHost).  `hlast` describes the          *)
(* callbacks and the waits that have run.                                  *)
(***************************************************************************)
\* main() has executed the statements that build `alerts`
Built == alerts # << >>

\* C26 (SpecHost): with the MQTT sensor interface main() gets past the
\* construction of its Alerts, and the list holds the battery Alert (on
\* batt_ul) and the sensor-timeout Alert (on timeout), each constructed
\* with no second attribute.
C26_SingleFlagAlerts ==
    (Built /\ sensor_interface = "mqtt") =>
        /\ ~halted
        /\ \A attr1 \in {"batt_ul", "timeout"} :
              \E i \in 1..Len(alerts) :
                  alerts[i].attr1 = attr1 /\ alerts[i].attr2 = "None"

\* the latest 'man_irr_cmd' found every pump with busy = 0
FoundIdle == \A p \in Pumps : hlast.req_busy[p] = 0

\* C28 (SpecHost): a 'man_irr_cmd' callback returns without an exception;
\* until the next man_irrigation() busy is PUMP_BUSY_MAN on a pump if the
\* callback found busy = 0 and as the callback found it otherwise; the
\* man_irrigation() that follows an accepted request calls power_on once
\* and leaves busy = 0.
C28_RequestSetsBusy ==
    /\ hlast.cmds > 0 => hlast.exc = ""
    /\ hlast.open =>
          IF FoundIdle THEN \E p \in Pumps : pumps[p].busy = PUMP_BUSY_MAN
          ELSE \A p \in Pumps : pumps[p].busy = hlast.req_busy[p]
    /\ (pc = PcIrr /\ hlast.served /\ FoundIdle) =>
          (hlast.calls = 1 /\ \A p \in Pumps : pumps[p].busy = 0)

\* a standby loop has ended in which no 'man_irr_cmd' was dispatched
WaitedAlone == pc = PcMan /\ hlast.waited # NoStep /\ hlast.req_step = NoStep

\* the second half of C29: without a request the standby loop sleeps
\* processing_period passes
FullWaitWithoutRequest ==
    WaitedAlone => (hlast.waited = processing_period /\ ~hlast.broke)

Restored == pc = 1 /\ boot.loaded /\ boot.log = << "load_state" >>

\* the saved fields have the values of the constructors and of config.ini
ColdStart ==
    /\ alert_tstamp = 0
    /\ \A a \in AlertIds :
          /\ tstamp[a] = 0 /\ ~flag[a]
          /\ val_ul[a] = 0 /\ val_oh[a] = 0 /\ ~status[a]
    /\ \A s \in Sensors : sensor_tstamp[s] = 0
    /\ \A p \in Pumps : pumps[p].busy = 0 /\ pumps[p].timestamp = 0
    /\ settings = inifile

\* C11: in every state - after the constructors, after every check() and
\* after load_state() of a saved state - an Alert with flag set has
\* tstamp # 0.
C11_FlagHasTstamp ==
    \A a \in AlertIds : flag[a] => tstamp[a] # 0

\* load_state() has restored an Alert with flag set
C11_RestoredFlagReached ==
    /\ Restored
    /\ \E a \in AlertIds : flag[a] /\ tstamp[a] # 0

\* C12: Alert.alert_tstamp never decreases: after the check() of any Alert
\* it is not smaller than it was before the call, and after load_state() it
\* is not smaller than it was when save_state() ran before the deep sleep.
C12_AlertTstampMonotone ==
    /\ (pc \in 2..PcIrr /\ Checked /\ last.a = pc - 1)
          => alert_tstamp >= last.alert_tstamp0
    /\ (halted /\ Checked) => alert_tstamp >= last.alert_tstamp0
    /\ Restored =>
          /\ boot.saved # << >>
          /\ alert_tstamp >= boot.saved[1].alert_tstamp

\* load_state() has restored an Alert.alert_tstamp that a check() had set
C12_RestoredReached ==
    /\ Restored
    /\ boot.saved[1].alert_tstamp # 0
    /\ alert_tstamp = boot.saved[1].alert_tstamp

\* the latest check() was the first one of its Alert after a wake-up from
\* deep sleep with load_state()
FirstCheckAfterWake ==
    /\ Checked /\ pc = last.a + 1
    /\ boot.cause = "DEEPSLEEP_RESET" /\ boot.loaded /\ boot.saved # << >>
    /\ boot.log = [i \in 1..(last.a + 1) |->
                      IF i = 1 THEN "load_state" ELSE "check"]

\* no item of the latest check() is violated that was not violated at the
\* save_state() before the deep sleep
StillViolated ==
    /\ AndNot(val_ul[last.a], boot.saved[1].val_ul[last.a], NumSensors) = 0
    /\ AndNot(val_oh[last.a], boot.saved[1].val_oh[last.a], NumSensors) = 0
    /\ status[last.a] => boot.saved[1].status[last.a]

\* C32: the first check() of a mode-1 Alert after a wake-up from deep sleep
\* returns False if no item is violated that was not already violated when
\* save_state() ran before the sleep: the restored vectors and status show
\* no rising edge.
C32_EdgeSurvivesSleep ==
    (FirstCheckAfterWake /\ LastMode = 1 /\ StillViolated) =>
        (~last.change /\ last.ret = "False")

\* a condition alerted before the deep sleep is still violated at the first
\* check() after the wake-up
C32_StillViolatedReached ==
    /\ FirstCheckAfterWake /\ LastMode = 1 /\ StillViolated
    /\ last.active /\ last.fired0
    /\ last.ret = "False"

\* C17: after save_state(), deep sleep and load_state() on the memory that
\* save_state() wrote, Alert.alert_tstamp, every Alert's tstamp, flag,
\* val_ul, val_oh and status, every sensor's tstamp, busy and timestamp of
\* both pumps and the four settings have the values they had at
\* save_state(), and load_state() raised no exception.
C17_RoundTrip ==
    (Restored /\ boot.intact) =>
        /\ boot.saved = << Snapshot >>
        /\ boot.exc = "none"
        /\ ~boot.garbled
        /\ ~halted

\* a state with a pump and a setting changed has made the round trip
C17_RoundTripReached ==
    /\ Restored /\ boot.intact
    /\ pumps[1].timestamp # 0 /\ pumps[0].timestamp = 0
    /\ settings.irr_duration_man # inifile.irr_duration_man
    /\ settings.deep_sleep

\* C18: load_state() on a memory that is not the document save_state()
\* wrote for the present lists (no document, records missing, another
\* number of records) raises nothing, assigns no value to a field it was
\* not saved for, and leaves every field at its default.
C18_MismatchIsColdStart ==
    (Restored /\ ~boot.intact) =>
        /\ boot.exc = "none"
        /\ ~halted
        /\ ~boot.garbled
        /\ ColdStart

\* C19: a cycle that has entered deep sleep has run the check() of every
\* Alert, then the irrigation, then save_state(), then deepsleep; after a
\* reset with cause DEEPSLEEP_RESET load_state() is the first step that
\* runs; after any other reset load_state() does not run and the main loop
\* starts from the defaults.
C19_CheckpointOrder ==
    /\ pc = PcOff =>
          \E k \in 1..Len(boot.log) :
              /\ SubSeq(boot.log, k, Len(boot.log))
                    = [i \in 1..(Len(AlertList) + 3) |->
                          IF i <= Len(AlertList) THEN "check"
                          ELSE IF i = Len(AlertList) + 1 THEN "irrigation"
                          ELSE IF i = Len(AlertList) + 2 THEN "save_state"
                          ELSE "deepsleep"]
              /\ \A i \in 1..(k - 1) : boot.log[i] = "load_state"
    /\ (boot.cause = "DEEPSLEEP_RESET" /\ pc # PcBoot) =>
          /\ boot.loaded
          /\ boot.log # << >> /\ boot.log[1] = "load_state"
    /\ boot.cause # "DEEPSLEEP_RESET" =>
          /\ ~boot.loaded
          /\ \A i \in 1..Len(boot.log) : boot.log[i] # "load_state"
          /\ (pc = 1 /\ boot.log = << >>) => ColdStart

\* the second deep sleep: the cycle that began with load_state() has run
\* its checks and its irrigation and has saved its state
C19_SecondSleepReached ==
    /\ pc = PcOff
    /\ boot.cause = "DEEPSLEEP_RESET"
    /\ boot.loaded
    /\ Len(boot.log) = Len(AlertList) + 4
    /\ rtc # NoBlob

(***************************************************************************)
(* Properties of the alert filter in a loop that never ends (SpecLive).    *)
(***************************************************************************)
\* Alert a, in mode 3 or 4, holds a rising edge that has not been alerted
\* while its condition is active
Pending(a) ==
    /\ mode[a] \in {3, 4}
    /\ WasActive(a) /\ flag[a] /\ ~fired[a]

\* the latest check() was the one of another Alert than a and returned True
OtherEmitted(a) == Checked /\ last.a # a /\ last.ret = "True"

AfterWake ==
    boot.cause = "DEEPSLEEP_RESET" /\ boot.loaded /\ boot.saved # << >>

\* C31: when auto_irrigation() calls power_on for a pump in a cycle that
\* started with a wake-up from deep sleep, the pass of that pump starts at
\* least irr_rest after the timestamp the pump had at the save_state()
\* before the sleep.
C31_RestSurvivesSleep ==
    \A p \in Pumps :
        (Irrigated /\ AfterWake /\ ilast.called[p] = 1) =>
            ilast.at[p] - boot.saved[1].timestamp[p] >= irr_rest

\* a pump that was run before the deep sleep is run again after the
\* wake-up, with a rest time that is not 0
C31_RunAfterSleepReached ==
    /\ Irrigated /\ AfterWake /\ irr_rest > 0
    /\ \E p \in Pumps :
          /\ ilast.called[p] = 1
          /\ boot.saved[1].timestamp[p] # 0
          /\ ilast.timestamp0[p] = boot.saved[1].timestamp[p]

\* C33: after a wake-up from deep sleep, load_state() leaves every saved
\* field with the value it had when machine.deepsleep() was called.
C33_RestoredIsStateAtSleep ==
    (Restored /\ boot.asleep # << >>) => Snapshot = boot.asleep[1]

\* C37: when man_irrigation() or auto_irrigation() has returned, and in
\* every document save_state() has written, busy of both pumps is 0 or
\* PUMP_BUSY_MAN.
C37_BusyAutoOnlyDuringRun ==
    \A p \in Pumps :
        /\ pc \in {PcIrr, PcEnd, PcSleep} => pumps[p].busy \in {0, PUMP_BUSY_MAN}
        /\ rtc.j = "arr" =>
              rtc.items[PosPump(p)].items[1].n \in {0, PUMP_BUSY_MAN}

\* save_state() has written the document of a cycle in which power_on was
\* called for both pumps and failed for one
C37_SavedAfterRunReached ==
    /\ pc = PcSleep /\ rtc.j = "arr"
    /\ \A p \in Pumps : ilast.called[p] = 1
    /\ \E p \in Pumps : ilast.status[p] # 0
    /\ \A p \in Pumps : rtc.items[PosPump(p)].items[1].n = 0

====
